---------------------------- MODULE Spec2Model ----------------------------
(***************************************************************************)
(* A model of the public-ip crate's resolution pipeline (src/src/lib.rs): *)
(* the Version filter, the slice fallback combinator DynSliceResolver and *)
(* the entry points resolve, addr_with_details and addr_with.             *)
(*                                                                         *)
(* A resolver of the list is any implementation of the Resolver trait; it *)
(* is modelled by the finite sequence of items its stream yields.  A poll *)
(* of a stream that still has an item may find that item not ready yet    *)
(* (network I/O outstanding) and then reports Pending.                    *)
(*                                                                         *)
(* One step of the model is one poll_next of the stream that `resolve`    *)
(* returns.  addr_with_details drives that stream through                 *)
(* filter_map(..).next(); its loop over skipped errors is unrolled to one *)
(* inner poll per step.                                                    *)
(***************************************************************************)
EXTENDS Naturals, Sequences, FiniteSets

VARIABLES
    resolvers,  \* the shared slice &[R]: a sequence of resolvers
    version,    \* the Version every attempt requests
    entry,      \* per attempt: the entry point that drives it
    phase,      \* per attempt: idle / running / ended / returned / dropped
    pos,        \* per cursor: DynSliceResolver.resolvers, as the count of elements taken
    stream,     \* per cursor: DynSliceResolver.stream, the items the current stream still holds
    last,       \* per attempt: the result of the latest poll_next of the resolve stream
    raw,        \* per attempt: items the combinator emitted up to its first end-of-sequence
    from,       \* per attempt: for each item of raw, the index of the resolver whose stream yielded it
    out,        \* per attempt: items the resolve stream emitted up to its first end-of-sequence
    late,       \* per attempt: items the resolve stream emitted after its first end-of-sequence
    calls,      \* per attempt: indexes of the resolvers whose resolve was invoked, in order
    ret,        \* per attempt: the value addr_with / addr_with_details returned
    lateFrom,   \* per attempt: for each item of late, the index of the resolver whose stream yielded it
    dns,        \* a dns::Resolver, the DnsResolutions built from it and the queries sent (dns.rs)
    rl,         \* a ResolverList and the sequences its resolve calls returned (resolver.rs)
    js,         \* a response body and what extract_json_ip_field made of it (http.rs)
    nest,       \* a slice of slices of resolvers and the stream built from it
    http,       \* a http::Resolver and the HttpResolutions built from it (http.rs)
    net         \* a slice of DNS and HTTP resolvers, the stream built from it and the queries sent

coreVars ==
    <<resolvers, version, entry, phase, pos, stream, last, raw, from, out, late, calls, ret,
      lateFrom>>

\* The parts of the state that belong to the other components.
otherVars == <<dns, rl, js, nest, http, net>>

vars == <<coreVars, otherVars>>

-----------------------------------------------------------------------------
(* Bounds of the model. *)

MaxResolvers == 3

MaxTotalItems == 3

SharedMaxResolvers == 2

SharedMaxTotalItems == 2

-----------------------------------------------------------------------------
(* Data: lib.rs and error.rs. *)

Version == {"V4", "V6", "Any"}

AddrV4 == [family |-> "v4", host |-> "203.0.113.5"]

AddrV6 == [family |-> "v6", host |-> "2001:db8::1"]

IpAddr == {AddrV4, AddrV6}

is_ipv4(addr) == addr.family = "v4"

is_ipv6(addr) == addr.family = "v6"

Ok(addr, details) == [kind |-> "Ok", addr |-> addr, details |-> details]

Err(error) == [kind |-> "Err", error |-> error]

ErrVersion == Err("Version")

ErrDns == Err("Dns")

\* The items a resolver of the model may yield.
Items == {Ok(AddrV4, "details"), Ok(AddrV6, "details"), ErrDns}

\* Poll<Option<Item>>
PollPending == [tag |-> "Pending"]

ReadyNone == [tag |-> "None"]

ReadySome(item) == [tag |-> "Some", item |-> item]

NotPolled == [tag |-> "NotPolled"]

\* Option<T> as returned by addr_with / addr_with_details
NoReturn == [tag |-> "NoReturn"]

RetNone == [tag |-> "None"]

RetSome(val) == [tag |-> "Some", val |-> val]

\* A plausible slip: the V6 arm lacks its family test.
matches_v6_unchecked(self, addr) ==
    \/ self = "Any"
    \/ (self = "V4" /\ is_ipv4(addr))
    \/ self = "V6"

matches(self, addr) ==
    \/ self = "Any"
    \/ (self = "V4" /\ is_ipv4(addr))
    \/ (self = "V6" /\ is_ipv6(addr))

-----------------------------------------------------------------------------
(* A resolver and its stream. *)

\* Resolver::resolve of one resolver of the list: the stream it returns,
\* as the sequence of items that stream will yield.
leaf_resolve(resolver, v) == resolver

\* poll_next of a resolver's stream.  An exhausted stream reports None at
\* once; a stream with an item reports it when ready and Pending otherwise.
stream_poll_next(s, ready) ==
    IF s = <<>> THEN [res |-> ReadyNone, stream |-> s]
    ELSE IF ~ready THEN [res |-> PollPending, stream |-> s]
    ELSE [res |-> ReadySome(Head(s)), stream |-> Tail(s)]

-----------------------------------------------------------------------------
(* The slice combinator: impl Resolver for &[R]. *)

\* A plausible slip: the failed resolver is taken again instead of the next one.
iter_next_retry(p, rs) ==
    IF p >= 1 /\ p <= Len(rs) THEN [some |-> TRUE, idx |-> p, pos |-> p]
    ELSE [some |-> FALSE, idx |-> 0, pos |-> p]

\* slice::Iter::next on the iterator that has already yielded p elements.
iter_next(p, rs) ==
    IF p < Len(rs) THEN [some |-> TRUE, idx |-> p + 1, pos |-> p + 1]
    ELSE [some |-> FALSE, idx |-> 0, pos |-> p]

\* A plausible slip: every resolver is invoked when the sequence is built.
slice_resolve_eager(rs, v) ==
    LET first_resolver == iter_next(0, rs)
    IN  [pos    |-> first_resolver.pos,
         stream |-> IF first_resolver.some
                    THEN leaf_resolve(rs[first_resolver.idx], v)
                    ELSE <<>>,
         called |-> [i \in 1..Len(rs) |-> i]]

\* A plausible slip: an empty list yields an error item instead of nothing.
slice_resolve_empty_err(rs, v) ==
    LET first_resolver == iter_next(0, rs)
    IN  [pos    |-> first_resolver.pos,
         stream |-> IF first_resolver.some
                    THEN leaf_resolve(rs[first_resolver.idx], v)
                    ELSE <<Err("Other")>>,
         called |-> IF first_resolver.some THEN <<first_resolver.idx>> ELSE <<>>]

\* A plausible slip: the iterator is advanced twice on a switch.
iter_next_twice(p, rs) ==
    IF p + 1 < Len(rs) THEN [some |-> TRUE, idx |-> p + 2, pos |-> p + 2]
    ELSE [some |-> FALSE, idx |-> 0, pos |-> Len(rs)]

\* self.resolvers.next() of DynSliceResolver::poll_next.
resolvers_next(p, rs) == iter_next(p, rs)

\* <&[R] as Resolver>::resolve: the DynSliceResolver it builds, and the
\* resolvers it invoked while building it.
slice_resolve(rs, v) ==
    LET first_resolver == iter_next(0, rs)
    IN  [pos    |-> first_resolver.pos,
         stream |-> IF first_resolver.some
                    THEN leaf_resolve(rs[first_resolver.idx], v)
                    ELSE <<>>,
         called |-> IF first_resolver.some THEN <<first_resolver.idx>> ELSE <<>>]

\* A plausible slip: a stream that is pending is treated as exhausted
\* (match without ready!), so the combinator moves on to the next resolver.
poll_next_pending_as_end(p, s, rs, v, ready) ==
    LET first == stream_poll_next(s, ready)
    IN  IF first.res.tag = "Some"
        THEN [res |-> first.res, pos |-> p, stream |-> first.stream,
              called |-> <<>>, src |-> p]
        ELSE LET next == iter_next(p, rs)
             IN  IF ~next.some
                 THEN [res |-> first.res, pos |-> next.pos, stream |-> first.stream,
                       called |-> <<>>, src |-> p]
                 ELSE LET second == stream_poll_next(leaf_resolve(rs[next.idx], v), ready)
                      IN  [res |-> second.res, pos |-> next.pos, stream |-> second.stream,
                           called |-> <<next.idx>>, src |-> next.idx]

\* A plausible slip: with no resolver left the combinator reports pending
\* instead of end-of-sequence (map_or(Poll::Pending, ..)).
poll_next_never_ends(p, s, rs, v, ready) ==
    LET first == stream_poll_next(s, ready)
    IN  IF first.res.tag # "None"
        THEN [res |-> first.res, pos |-> p, stream |-> first.stream,
              called |-> <<>>, src |-> p]
        ELSE LET next == iter_next(p, rs)
             IN  IF ~next.some
                 THEN [res |-> PollPending, pos |-> next.pos, stream |-> first.stream,
                       called |-> <<>>, src |-> p]
                 ELSE LET second == stream_poll_next(leaf_resolve(rs[next.idx], v), ready)
                      IN  [res |-> second.res, pos |-> next.pos, stream |-> second.stream,
                           called |-> <<next.idx>>, src |-> next.idx]

\* A plausible slip: after the switch the new stream is stored and pending
\* is reported, its first poll left to the next pull.
poll_next_switch_pending(p, s, rs, v, ready) ==
    LET first == stream_poll_next(s, ready)
    IN  IF first.res.tag # "None"
        THEN [res |-> first.res, pos |-> p, stream |-> first.stream,
              called |-> <<>>, src |-> p]
        ELSE LET next == iter_next(p, rs)
             IN  IF ~next.some
                 THEN [res |-> ReadyNone, pos |-> next.pos, stream |-> first.stream,
                       called |-> <<>>, src |-> p]
                 ELSE [res |-> PollPending, pos |-> next.pos,
                       stream |-> leaf_resolve(rs[next.idx], v),
                       called |-> <<next.idx>>, src |-> next.idx]

\* DynSliceResolver::poll_next on the state (p, s): the result, the new
\* state, the resolvers invoked in this poll and the index of the resolver
\* whose stream was polled last.
poll_next(p, s, rs, v, ready) ==
    LET first == stream_poll_next(s, ready)
    IN  IF first.res.tag # "None"
        THEN [res |-> first.res, pos |-> p, stream |-> first.stream,
              called |-> <<>>, src |-> p]
        ELSE LET next == resolvers_next(p, rs)
             IN  IF ~next.some
                 THEN [res |-> ReadyNone, pos |-> next.pos, stream |-> first.stream,
                       called |-> <<>>, src |-> p]
                 ELSE LET second == stream_poll_next(leaf_resolve(rs[next.idx], v), ready)
                      IN  [res |-> second.res, pos |-> next.pos, stream |-> second.stream,
                           called |-> <<next.idx>>, src |-> next.idx]

\* <&dyn Resolver as Resolver>::resolve: (**self).resolve(version)
dyn_resolve(resolver, v) == leaf_resolve(resolver, v)

\* <&[&dyn Resolver; N] as Resolver>::resolve: Resolver::resolve(&&self[..], version)
array_resolve(rs, v) == slice_resolve([i \in 1..Len(rs) |-> rs[i]], v)

-----------------------------------------------------------------------------
(* The entry points: resolve, addr_with_details, addr_with. *)

\* A plausible slip: no version check at all.
and_then_unchecked(res, v) == res

\* A plausible slip: every item that is not a matching success becomes Error::Version.
and_then_all_version(res, v) ==
    IF res.tag # "Some" THEN res
    ELSE IF res.item.kind = "Ok" /\ matches(v, res.item.addr) THEN res
    ELSE ReadySome(ErrVersion)

\* The and_then stage of resolve: what a poll of the resolve stream reports
\* when the combinator below it reported res.
resolve_and_then(res, v) ==
    IF res.tag # "Some" THEN res
    ELSE IF res.item.kind = "Err" THEN res
    ELSE IF matches(v, res.item.addr) THEN ReadySome(Ok(res.item.addr, res.item.details))
    ELSE ReadySome(ErrVersion)

\* A plausible slip: next().await?.ok() - the first item decides, error or not.
filter_map_first(res) ==
    IF res.tag = "Pending" THEN [done |-> FALSE, val |-> NoReturn]
    ELSE IF res.tag = "None" THEN [done |-> TRUE, val |-> RetNone]
    ELSE IF res.item.kind = "Ok"
         THEN [done |-> TRUE, val |-> RetSome(<<res.item.addr, res.item.details>>)]
         ELSE [done |-> TRUE, val |-> RetNone]

\* filter_map(|result| ready(result.ok())).next() of addr_with_details, on
\* one result of the resolve stream: whether the future completes, and with
\* which value.
filter_map_next(res) ==
    IF res.tag = "Pending" THEN [done |-> FALSE, val |-> NoReturn]
    ELSE IF res.tag = "None" THEN [done |-> TRUE, val |-> RetNone]
    ELSE IF res.item.kind = "Ok"
         THEN [done |-> TRUE, val |-> RetSome(<<res.item.addr, res.item.details>>)]
         ELSE [done |-> FALSE, val |-> NoReturn]

\* addr_with: addr_with_details(..).await.map(|(addr, _)| addr)
addr_with_map(val) ==
    IF val.tag = "Some" THEN RetSome(val.val[1]) ELSE val

\* The result of the match of addr_v4 / addr_v6 when its unreachable!() arm
\* is taken.
Unreachable == [tag |-> "Unreachable"]

\* addr_v4: addr_with(ALL, Version::V4).await.map(|addr| match addr { .. })
addr_v4_map(val) ==
    IF val.tag # "Some" THEN val
    ELSE IF is_ipv4(val.val) THEN RetSome(val.val) ELSE Unreachable

\* addr_v6: addr_with(ALL, Version::V6).await.map(|addr| match addr { .. })
addr_v6_map(val) ==
    IF val.tag # "Some" THEN val
    ELSE IF is_ipv6(val.val) THEN RetSome(val.val) ELSE Unreachable

\* A plausible slip: the family entry points ask for any version.
entry_version_any(e) == "Any"

\* The version addr_v4 and addr_v6 pass to addr_with.
entry_version(e) == IF e = "addr_v4" THEN "V4" ELSE "V6"

Entries == {"resolve", "addr_with_details", "addr_with"}

\* A plausible slip: the cursor lives in one place shared by every call.
cursor_shared(a) == 1

\* Each call of resolve boxes a DynSliceResolver of its own.
cursor_of(a) == a

-----------------------------------------------------------------------------
(* The state machine. *)

\* Every stream of at most t items.
Scripts(t) == UNION {[1..n -> Items] : n \in 0..t}

\* Every list of exactly n resolvers that yield at most t items together.
RECURSIVE ListsOf(_, _)
ListsOf(n, t) ==
    IF n = 0 THEN {<<>>}
    ELSE UNION {{<<s>> \o rest : rest \in ListsOf(n - 1, t - Len(s))} : s \in Scripts(t)}

ResolverLists(maxn, t) == UNION {ListsOf(n, t) : n \in 0..maxn}

\* A component that takes no part in a specification.
Unused == [on |-> FALSE]

InitCore(attempts, lists) ==
    /\ resolvers \in lists
    /\ version \in Version
    /\ entry = [a \in attempts |-> "resolve"]
    /\ phase = [a \in attempts |-> "idle"]
    /\ pos = [a \in attempts |-> 0]
    /\ stream = [a \in attempts |-> <<>>]
    /\ last = [a \in attempts |-> NotPolled]
    /\ raw = [a \in attempts |-> <<>>]
    /\ from = [a \in attempts |-> <<>>]
    /\ out = [a \in attempts |-> <<>>]
    /\ late = [a \in attempts |-> <<>>]
    /\ calls = [a \in attempts |-> <<>>]
    /\ ret = [a \in attempts |-> NoReturn]
    /\ lateFrom = [a \in attempts |-> <<>>]

InitWith(attempts, lists) ==
    /\ InitCore(attempts, lists)
    /\ dns = Unused /\ rl = Unused /\ js = Unused /\ nest = Unused /\ http = Unused /\ net = Unused

\* No attempt over a slice of resolvers is made.
CoreIdle ==
    /\ InitCore({1}, {<<>>})
    /\ version = "Any"

\* One attempt over the list.
Init == InitWith({1}, ResolverLists(MaxResolvers, MaxTotalItems))

\* Two attempts over the same list.
InitShared == InitWith({1, 2}, ResolverLists(SharedMaxResolvers, SharedMaxTotalItems))

Attempts == DOMAIN phase

\* A caller enters through e: resolve(resolvers, version) builds the stream.
Start(a, e) ==
    /\ phase[a] = "idle"
    /\ LET built == slice_resolve(resolvers, version)
       IN  /\ pos' = [pos EXCEPT ![cursor_of(a)] = built.pos]
           /\ stream' = [stream EXCEPT ![cursor_of(a)] = built.stream]
           /\ calls' = [calls EXCEPT ![a] = built.called]
    /\ entry' = [entry EXCEPT ![a] = e]
    /\ phase' = [phase EXCEPT ![a] = "running"]
    /\ UNCHANGED <<resolvers, version, last, raw, from, out, late, ret, lateFrom>>
    /\ UNCHANGED otherVars

\* One poll_next of the stream resolve returned, by the caller's loop or by
\* the filter_map(..).next() of addr_with_details.
Poll(a, ready) ==
    /\ phase[a] \in {"running", "ended"}
    /\ LET c == cursor_of(a)
           inner == poll_next(pos[c], stream[c], resolvers, version, ready)
           res == resolve_and_then(inner.res, version)
           first == filter_map_next(res)
           emits == res.tag = "Some"
       IN  /\ pos' = [pos EXCEPT ![c] = inner.pos]
           /\ stream' = [stream EXCEPT ![c] = inner.stream]
           /\ calls' = [calls EXCEPT ![a] = @ \o inner.called]
           /\ last' = [last EXCEPT ![a] = res]
           /\ IF emits /\ phase[a] = "running"
              THEN /\ raw' = [raw EXCEPT ![a] = Append(@, inner.res.item)]
                   /\ from' = [from EXCEPT ![a] = Append(@, inner.src)]
                   /\ out' = [out EXCEPT ![a] = Append(@, res.item)]
              ELSE UNCHANGED <<raw, from, out>>
           /\ late' = IF emits /\ phase[a] = "ended"
                      THEN [late EXCEPT ![a] = Append(@, res.item)]
                      ELSE late
           /\ lateFrom' = IF emits /\ phase[a] = "ended"
                          THEN [lateFrom EXCEPT ![a] = Append(@, inner.src)]
                          ELSE lateFrom
           /\ IF entry[a] = "resolve"
              THEN /\ phase' = IF res.tag = "None" THEN [phase EXCEPT ![a] = "ended"] ELSE phase
                   /\ ret' = ret
              ELSE /\ phase' = IF first.done THEN [phase EXCEPT ![a] = "returned"] ELSE phase
                   /\ ret' = IF ~first.done THEN ret
                             ELSE IF entry[a] = "addr_with"
                                  THEN [ret EXCEPT ![a] = addr_with_map(first.val)]
                             ELSE IF entry[a] = "addr_v4"
                                  THEN [ret EXCEPT ![a] = addr_v4_map(addr_with_map(first.val))]
                             ELSE IF entry[a] = "addr_v6"
                                  THEN [ret EXCEPT ![a] = addr_v6_map(addr_with_map(first.val))]
                                  ELSE [ret EXCEPT ![a] = first.val]
    /\ UNCHANGED <<resolvers, version, entry>>
    /\ UNCHANGED otherVars

\* The caller abandons the pipeline: the stream (or the future) is dropped.
Drop(a) ==
    /\ phase[a] \in {"running", "ended"}
    /\ phase' = [phase EXCEPT ![a] = "dropped"]
    /\ UNCHANGED <<resolvers, version, entry, pos, stream, last, raw, from, out, late, calls, ret,
                   lateFrom>>
    /\ UNCHANGED otherVars

Next ==
    \/ \E a \in Attempts, e \in Entries : Start(a, e)
    \/ \E a \in Attempts, ready \in BOOLEAN : Poll(a, ready)
    \/ \E a \in Attempts : Drop(a)

Spec == Init /\ [][Next]_vars

\* Two callers of resolve over the same list, their polls interleaved.
NextShared ==
    \/ \E a \in Attempts : Start(a, "resolve")
    \/ \E a \in Attempts, ready \in BOOLEAN : Poll(a, ready)
    \/ \E a \in Attempts : Drop(a)

SpecShared == InitShared /\ [][NextShared]_vars

-----------------------------------------------------------------------------
(* Reference sequences the properties compare the runs with. *)

\* The items of one stream, drained on its own.
RECURSIVE drained(_)
drained(s) ==
    LET p == stream_poll_next(s, TRUE)
    IN  IF p.res.tag = "None" THEN <<>> ELSE <<p.res.item>> \o drained(p.stream)

\* The items of each resolver of rs drained independently, in list order.
RECURSIVE concat_drained(_, _)
concat_drained(rs, v) ==
    IF rs = <<>> THEN <<>>
    ELSE drained(leaf_resolve(Head(rs), v)) \o concat_drained(Tail(rs), v)

IsPrefix(s, t) == Len(s) <= Len(t) /\ s = SubSeq(t, 1, Len(s))

Range(s) == {s[i] : i \in 1..Len(s)}

-----------------------------------------------------------------------------
(* Properties. *)

\* C1: for a non-empty list, the items the combinator emits up to its first
\* end-of-sequence are the concatenation, in list order, of the items of
\* each resolver drained independently, each item unchanged.
C1_OrderPreservation ==
    \A a \in Attempts :
        (phase[a] = "ended" /\ resolvers # <<>>)
            => raw[a] = concat_drained(resolvers, version)

\* C2: the combinator reports end-of-sequence only in a poll in which no
\* resolver of the list is left untried; an immediately-exhausted resolver
\* makes it fall back to the next one.
C2_EndOnlyWhenNoneRemains ==
    \A a \in Attempts :
        last[a].tag = "None" => pos[cursor_of(a)] = Len(resolvers)

\* The address of a value addr_with (an address) or addr_with_details
\* (an address with its details) returned.
ReturnedAddr(a) == IF entry[a] = "addr_with" THEN ret[a].val ELSE ret[a].val[1]

\* C3: every address that leaves resolve, addr_with or addr_with_details
\* matches the requested version, whatever the resolvers yield.
C3_OnlyMatchingAddressesLeave ==
    \A a \in Attempts :
        /\ \A i \in 1..Len(out[a]) :
               out[a][i].kind = "Ok" => matches(version, out[a][i].addr)
        /\ \A i \in 1..Len(late[a]) :
               late[a][i].kind = "Ok" => matches(version, late[a][i].addr)
        /\ last[a].tag = "Some" /\ last[a].item.kind = "Ok"
               => matches(version, last[a].item.addr)
        /\ ret[a].tag = "Some" => matches(version, ReturnedAddr(a))

\* C3 witness: an entry point returned an address although a resolver had
\* yielded an address of the family that was not requested.
C3_Witness ==
    \E a \in Attempts :
        /\ ret[a].tag = "Some"
        /\ \E i \in 1..Len(raw[a]) :
               raw[a][i].kind = "Ok" /\ ~matches(version, raw[a][i].addr)

\* What resolve must emit for an item the combinator emitted.
Validated(item) ==
    IF item.kind = "Ok"
           /\ ~(\/ version = "Any"
                \/ (version = "V4" /\ item.addr.family = "v4")
                \/ (version = "V6" /\ item.addr.family = "v6"))
    THEN [kind |-> "Err", error |-> "Version"]
    ELSE item

\* C4: resolve maps the combinator's items one by one, keeping length and
\* order: a success of the wrong family becomes Error::Version in place, a
\* matching success and every error stay as they are.  One resolver that
\* yields a v6 address, asked for V4, gives [Err(Version)] and no address.
C4_ResolveMapsItemByItem ==
    \A a \in Attempts :
        /\ Len(out[a]) = Len(raw[a])
        /\ \A i \in 1..Len(raw[a]) : out[a][i] = Validated(raw[a][i])
        /\ (resolvers = <<<<Ok(AddrV6, "details")>>>> /\ version = "V4")
               => /\ phase[a] = "ended" => out[a] = <<ErrVersion>>
                  /\ phase[a] = "returned" => ret[a] = RetNone

\* C4 witness: a drained resolve stream that held a success of the wrong
\* family, a matching success and a resolver's error.
C4_Witness ==
    \E a \in Attempts :
        /\ phase[a] = "ended"
        /\ \E i \in 1..Len(raw[a]) : raw[a][i].kind = "Ok" /\ out[a][i] = ErrVersion
        /\ \E i \in 1..Len(raw[a]) : raw[a][i].kind = "Ok" /\ out[a][i].kind = "Ok"
        /\ \E i \in 1..Len(raw[a]) : raw[a][i].kind = "Err"

\* C5: addr_with and addr_with_details return the first success of the
\* resolve stream, skipping every error before it; they return none exactly
\* when the stream ended without a success, and never stop at an error.
C5_FirstSuccessOrNone ==
    \A a \in Attempts :
        entry[a] # "resolve" =>
            /\ \A i \in 1..(Len(out[a]) - 1) : out[a][i].kind = "Err"
            /\ phase[a] = "running" =>
                   /\ ret[a] = NoReturn
                   /\ \A i \in 1..Len(out[a]) : out[a][i].kind = "Err"
                   /\ last[a].tag # "None"
            /\ phase[a] = "returned" =>
                   /\ ret[a].tag \in {"Some", "None"}
                   /\ ret[a].tag = "Some" <=>
                          (Len(out[a]) > 0 /\ out[a][Len(out[a])].kind = "Ok")
                   /\ ret[a].tag = "Some" =>
                          /\ last[a] = ReadySome(out[a][Len(out[a])])
                          /\ ReturnedAddr(a) = out[a][Len(out[a])].addr
                          /\ entry[a] = "addr_with_details" =>
                                 ret[a].val[2] = out[a][Len(out[a])].details
                   /\ ret[a].tag = "None" <=> last[a].tag = "None"
            /\ (resolvers = <<<<ErrDns>>, <<Ok(AddrV4, "details")>>>>
                    /\ version = "Any" /\ entry[a] = "addr_with" /\ phase[a] = "returned")
                   => ret[a] = RetSome(AddrV4)

\* C5 witness: an address was returned after two errors were skipped.
C5_Witness ==
    \E a \in Attempts :
        /\ entry[a] # "resolve"
        /\ phase[a] = "returned"
        /\ ret[a].tag = "Some"
        /\ Len(out[a]) = 3

\* C6: within one attempt no resolver's resolve is invoked twice; when r0
\* yields only errors and r1 one success, the best-effort entry points
\* return that success with r0 and r1 each invoked exactly once.
C6_EachResolverInvokedAtMostOnce ==
    \A a \in Attempts :
        /\ \A i, j \in 1..Len(calls[a]) : calls[a][i] = calls[a][j] => i = j
        /\ (/\ Len(resolvers) = 2
            /\ resolvers[1] # <<>>
            /\ \A i \in 1..Len(resolvers[1]) : resolvers[1][i].kind = "Err"
            /\ Len(resolvers[2]) = 1
            /\ resolvers[2][1].kind = "Ok"
            /\ version = "Any"
            /\ entry[a] # "resolve"
            /\ phase[a] = "returned")
               => /\ calls[a] = <<1, 2>>
                  /\ ret[a].tag = "Some"
                  /\ ReturnedAddr(a) = resolvers[2][1].addr

\* C6 witness: r0 failed twice, r1 succeeded and the entry point returned.
C6_Witness ==
    \E a \in Attempts :
        /\ Len(resolvers) = 2
        /\ Len(resolvers[1]) = 2
        /\ \A i \in 1..Len(resolvers[1]) : resolvers[1][i].kind = "Err"
        /\ Len(resolvers[2]) = 1
        /\ resolvers[2][1].kind = "Ok"
        /\ version = "Any"
        /\ entry[a] = "addr_with"
        /\ phase[a] = "returned"
        /\ calls[a] = <<1, 2>>

\* C7: at every point where the pipeline may be abandoned no resolver
\* behind the active one has been invoked; when addr_with_details returns
\* a success of resolver k, no resolver after k has been invoked.
C7_LaterResolversNeverStarted ==
    \A a \in Attempts :
        /\ \A i \in Range(calls[a]) : i <= pos[cursor_of(a)]
        /\ phase[a] \in {"running", "ended", "returned", "dropped"}
               => \A i \in 1..Len(resolvers) :
                      i > pos[cursor_of(a)] => i \notin Range(calls[a])
        /\ (phase[a] = "returned" /\ ret[a].tag = "Some")
               => \A i \in Range(calls[a]) : i <= from[a][Len(from[a])]

\* C7 witness: addr_with_details returned a success of the first resolver
\* of a list of three.
C7_Witness ==
    \E a \in Attempts :
        /\ entry[a] = "addr_with_details"
        /\ phase[a] = "returned"
        /\ ret[a].tag = "Some"
        /\ from[a][Len(from[a])] = 1
        /\ Len(resolvers) = 3
        /\ calls[a] = <<1>>

\* C8: for an empty list the first poll of resolve reports end-of-sequence
\* and nothing is ever emitted; addr_with and addr_with_details return
\* none, as they do for a non-empty list whose items are all errors.
C8_EmptyListYieldsNothing ==
    \A a \in Attempts :
        /\ resolvers = <<>> =>
               /\ calls[a] = <<>>
               /\ raw[a] = <<>> /\ out[a] = <<>> /\ late[a] = <<>>
               /\ last[a].tag \in {"NotPolled", "None"}
               /\ phase[a] = "returned" => ret[a] = RetNone
        /\ (/\ resolvers # <<>>
            /\ \A i \in 1..Len(resolvers) :
                   \A j \in 1..Len(resolvers[i]) : resolvers[i][j].kind = "Err"
            /\ phase[a] = "returned")
               => ret[a] = RetNone

\* C8 witness: addr_with returned none for the empty list.
C8_Witness ==
    \E a \in Attempts :
        /\ resolvers = <<>>
        /\ entry[a] = "addr_with"
        /\ phase[a] = "returned"
        /\ ret[a] = RetNone
        /\ last[a] = ReadyNone

\* C9: Version::matches is total and splits the addresses: V4 matches
\* exactly the IPv4 addresses, V6 exactly the IPv6 addresses, Any matches
\* all, so exactly one of V4 and V6 matches an address; resolve keeps a
\* success exactly when its family is the requested one.
C9_MatchesPartitionsAddresses ==
    /\ \A addr \in IpAddr :
           /\ \A v \in Version : matches(v, addr) \in BOOLEAN
           /\ matches("V4", addr) <=> addr.family = "v4"
           /\ matches("V6", addr) <=> addr.family = "v6"
           /\ matches("Any", addr)
           /\ matches("V4", addr) # matches("V6", addr)
    /\ \A a \in Attempts : \A i \in 1..Len(raw[a]) :
           raw[a][i].kind = "Ok" =>
               (out[a][i].kind = "Ok" <=>
                    \/ version = "Any"
                    \/ (version = "V4" /\ raw[a][i].addr.family = "v4")
                    \/ (version = "V6" /\ raw[a][i].addr.family = "v6"))

\* C9 witness: under V6 the filter met an address of each family.
C9_Witness ==
    \E a \in Attempts :
        /\ version = "V6"
        /\ \E i \in 1..Len(raw[a]) : raw[a][i].kind = "Ok" /\ raw[a][i].addr.family = "v4"
        /\ \E i \in 1..Len(raw[a]) : raw[a][i].kind = "Ok" /\ raw[a][i].addr.family = "v6"

\* The items one attempt receives from the combinator when it runs alone,
\* from the cursor (p, s) up to the first end-of-sequence.
RECURSIVE solo_items(_, _, _, _)
solo_items(p, s, rs, v) ==
    LET r == poll_next(p, s, rs, v, TRUE)
    IN  IF r.res.tag = "None" THEN <<>>
        ELSE <<r.res.item>> \o solo_items(r.pos, r.stream, rs, v)

SoloItems ==
    LET built == slice_resolve(resolvers, version)
    IN  solo_items(built.pos, built.stream, resolvers, version)

\* C10: two attempts over the same list and version, their polls
\* interleaved in any order, each receive the sequence they would receive
\* alone; the cursor of one is never moved by the other: what an attempt
\* has received and what its cursor still holds make up that sequence.
C10_AttemptsAreIndependent ==
    \A a \in Attempts :
        phase[a] # "idle" =>
            /\ IsPrefix(raw[a], SoloItems)
            /\ phase[a] = "ended" => raw[a] = SoloItems
            /\ phase[a] = "running" =>
                   raw[a] \o solo_items(pos[a], stream[a], resolvers, version) = SoloItems
            /\ \A i \in 1..Len(out[a]) : out[a][i] = Validated(raw[a][i])

\* C10 witness: one attempt has received its two items from two resolvers
\* and ended while the other, started too, has received one item so far.
C10_Witness ==
    /\ Attempts = {1, 2}
    /\ phase[2] = "ended" /\ from[2] = <<1, 2>>
    /\ phase[1] = "running" /\ Len(raw[1]) = 1 /\ last[1].tag = "Pending"

\* Everything an attempt received, before and after the first
\* end-of-sequence, and the resolver each item came from.
Emitted(a) == out[a] \o late[a]

EmittedFrom(a) == from[a] \o lateFrom[a]

\* The items of e whose source, listed in f, is resolver i.
RECURSIVE items_of(_, _, _)
items_of(e, f, i) ==
    IF e = <<>> THEN <<>>
    ELSE IF Head(f) = i THEN <<Head(e)>> \o items_of(Tail(e), Tail(f), i)
    ELSE items_of(Tail(e), Tail(f), i)

\* C12: at every point of every run the emitted items are in resolver
\* order: sources never decrease, the items of one resolver come in that
\* resolver's own order, and an item of a resolver is emitted only after
\* every resolver before it has emitted all its items and ended.
C12_StrictPriorityOrder ==
    \A a \in Attempts :
        LET e == Emitted(a)
            f == EmittedFrom(a)
        IN  /\ Len(e) = Len(f)
            /\ \A m, n \in 1..Len(f) : m <= n => f[m] <= f[n]
            /\ \A i \in 1..Len(resolvers) :
                   LET mine == items_of(e, f, i)
                   IN  /\ Len(mine) <= Len(resolvers[i])
                       /\ \A k \in 1..Len(mine) : mine[k] = Validated(resolvers[i][k])
            /\ \A n \in 1..Len(f) : \A i \in 1..(f[n] - 1) :
                   /\ i \in Range(calls[a])
                   /\ Len(items_of(SubSeq(e, 1, n - 1), SubSeq(f, 1, n - 1), i))
                          = Len(resolvers[i])

\* C12 witness: two items of the first resolver, then one of the second,
\* were emitted after polls that found the first resolver pending.
C12_Witness ==
    \E a \in Attempts :
        /\ entry[a] = "resolve"
        /\ from[a] = <<1, 1, 2>>
        /\ Len(resolvers[1]) = 2
        /\ resolvers[1][1] # resolvers[1][2]

\* C20: a poll in which the current stream yields an item or is pending
\* leaves the cursor where it is and keeps the current stream (less the
\* item taken) without invoking any resolver; the cursor moves, by exactly
\* one resolver, only in a poll in which the current stream reported
\* end-of-sequence, and the resolver moved to is the only one invoked.
C20_PullFrame ==
    [][\A a \in Attempts :
           (phase[a] \in {"running", "ended"} /\ phase'[a] # "dropped") =>
               LET c == cursor_of(a)
               IN  /\ stream[c] # <<>> =>
                          /\ pos'[c] = pos[c]
                          /\ calls'[a] = calls[a]
                          /\ \/ stream'[c] = stream[c] /\ last'[a] = PollPending
                             \/ stream'[c] = Tail(stream[c]) /\ last'[a].tag = "Some"
                   /\ pos'[c] # pos[c] =>
                          /\ stream[c] = <<>>
                          /\ pos'[c] = pos[c] + 1
                          /\ calls'[a] = Append(calls[a], pos[c] + 1)
                          /\ \/ stream'[c] = resolvers[pos'[c]]
                             \/ /\ resolvers[pos'[c]] # <<>>
                                /\ stream'[c] = Tail(resolvers[pos'[c]])
                   /\ (stream[c] = <<>> /\ pos[c] < Len(resolvers)) => pos'[c] = pos[c] + 1
                   /\ (stream[c] = <<>> /\ pos[c] >= Len(resolvers)) =>
                          /\ pos'[c] = pos[c] /\ stream'[c] = <<>> /\ calls'[a] = calls[a]
      ]_vars

\* C20 witness: the cursor stands at the second of three resolvers after
\* an item of the first was emitted and a poll found the second pending.
C20_Witness ==
    \E a \in Attempts :
        /\ Len(resolvers) = 3
        /\ pos[cursor_of(a)] = 2
        /\ from[a] = <<1>>
        /\ last[a] = PollPending
        /\ stream[cursor_of(a)] = resolvers[2]
        /\ calls[a] = <<1, 2>>

\* C21: in a poll that switches to the next resolver, the first poll of
\* that resolver's stream happens in the same poll and decides the result:
\* pending only when the new stream holds an item that is not ready, the
\* item when it is ready, end-of-sequence when the new stream is empty.
\* In no state is pending the last result over an exhausted stream.
C21_SwitchAndPollInOnePull ==
    [][\A a \in Attempts :
           (phase[a] \in {"running", "ended"} /\ phase'[a] # "dropped") =>
               LET c == cursor_of(a)
               IN  /\ pos'[c] # pos[c] =>
                          LET new == resolvers[pos'[c]]
                          IN  /\ calls'[a] = Append(calls[a], pos'[c])
                              /\ new = <<>> => (last'[a] = ReadyNone /\ stream'[c] = <<>>)
                              /\ new # <<>> =>
                                     \/ last'[a] = PollPending /\ stream'[c] = new
                                     \/ /\ last'[a] = ReadySome(Validated(Head(new)))
                                        /\ stream'[c] = Tail(new)
                   /\ last'[a] = PollPending => stream'[c] # <<>>
      ]_vars

\* C21 witness: a poll switched from the exhausted first resolver to the
\* second one and emitted the second one's first item.
C21_Witness ==
    \E a \in Attempts :
        /\ Len(resolvers) >= 2
        /\ resolvers[1] # <<>>
        /\ from[a] = <<1, 2>>
        /\ Len(resolvers[1]) = 1
        /\ last[a].tag = "Some"
        /\ pos[cursor_of(a)] = 2
        /\ calls[a] = <<1, 2>>

\* C28: once a poll has reported end-of-sequence, every later poll of the
\* same sequence reports end-of-sequence too and no item is emitted after
\* it (a resolver invoked after it would show as a poll that reports
\* pending or an item).
C28_EndIsFinal ==
    \A a \in Attempts :
        phase[a] = "ended" => (last[a] = ReadyNone /\ late[a] = <<>>)

-----------------------------------------------------------------------------
(* addr_v4 and addr_v6: addr_with over the builtin resolvers with the      *)
(* version fixed by the entry point.                                        *)

FamilyMaxResolvers == 2

FamilyMaxTotalItems == 2

FamilyEntries == {"addr_v4", "addr_v6"}

\* The builtin resolvers, whatever they yield; no version was passed yet.
InitFamily ==
    /\ InitWith({1}, ResolverLists(FamilyMaxResolvers, FamilyMaxTotalItems))
    /\ version = "Any"

\* The call of addr_v4 or addr_v6: addr_with with the entry point's version.
StartFamily(a, e) ==
    /\ phase[a] = "idle"
    /\ version' = entry_version(e)
    /\ LET built == slice_resolve(resolvers, entry_version(e))
       IN  /\ pos' = [pos EXCEPT ![cursor_of(a)] = built.pos]
           /\ stream' = [stream EXCEPT ![cursor_of(a)] = built.stream]
           /\ calls' = [calls EXCEPT ![a] = built.called]
    /\ entry' = [entry EXCEPT ![a] = e]
    /\ phase' = [phase EXCEPT ![a] = "running"]
    /\ UNCHANGED <<resolvers, last, raw, from, out, late, ret, lateFrom>>
    /\ UNCHANGED otherVars

NextFamily ==
    \/ \E a \in Attempts, e \in FamilyEntries : StartFamily(a, e)
    \/ \E a \in Attempts, ready \in BOOLEAN : Poll(a, ready)
    \/ \E a \in Attempts : Drop(a)

SpecFamily == InitFamily /\ [][NextFamily]_vars

\* C27: the unreachable!() arms of addr_v4 and addr_v6 are never taken:
\* whatever the resolvers yield, addr_v4 returns none or an IPv4 address
\* and addr_v6 returns none or an IPv6 address.
C27_UnreachableNeverTaken ==
    \A a \in Attempts :
        /\ ret[a] # Unreachable
        /\ (entry[a] = "addr_v4" /\ ret[a].tag = "Some") => ret[a].val.family = "v4"
        /\ (entry[a] = "addr_v6" /\ ret[a].tag = "Some") => ret[a].val.family = "v6"
        /\ phase[a] = "returned" => ret[a].tag \in {"Some", "None"}

\* C27 witness: addr_v4 returned an IPv4 address after a resolver had
\* yielded an IPv6 address.
C27_Witness ==
    \E a \in Attempts :
        /\ entry[a] = "addr_v4"
        /\ phase[a] = "returned"
        /\ ret[a] = RetSome(AddrV4)
        /\ \E i \in 1..Len(raw[a]) : raw[a][i].kind = "Ok" /\ raw[a][i].addr.family = "v6"

-----------------------------------------------------------------------------
(* A caller that keeps polling: the stream is drained, never dropped, and   *)
(* a pull that is pending eventually completes.                            *)

LiveMaxResolvers == 2

LiveMaxTotalItems == 2

InitLive == InitWith({1}, ResolverLists(LiveMaxResolvers, LiveMaxTotalItems))

NextLive ==
    \/ \E a \in Attempts, e \in Entries : Start(a, e)
    \/ \E a \in Attempts, ready \in BOOLEAN : Poll(a, ready)

\* The call is made, and the caller's polls keep coming with the active
\* resolver's stream ready again and again.
SpecLive ==
    /\ InitLive
    /\ [][NextLive]_vars
    /\ \A a \in {1} : WF_vars(\E e \in Entries : Start(a, e))
    /\ \A a \in {1} : WF_vars(Poll(a, TRUE))

RECURSIVE total_len(_)
total_len(rs) == IF rs = <<>> THEN 0 ELSE Len(Head(rs)) + total_len(Tail(rs))

\* C19: over a finite list of finite resolvers whose pending pulls
\* complete, a drained resolve stream reaches end-of-sequence and addr_with
\* and addr_with_details return (a success or none); the items emitted are
\* never more than the resolvers' items taken together.
C19_Terminates ==
    /\ [](\A a \in {1} : Len(Emitted(a)) <= total_len(resolvers))
    /\ \A a \in {1} :
           <>(\/ entry[a] = "resolve" /\ phase[a] = "ended"
              \/ /\ entry[a] # "resolve"
                 /\ phase[a] = "returned"
                 /\ ret[a].tag \in {"Some", "None"})

\* C19 witness: resolve ended after every item of a list of two
\* resolvers was emitted, and later polls added nothing.
C19_Witness ==
    \E a \in Attempts :
        /\ entry[a] = "resolve"
        /\ phase[a] = "ended"
        /\ Len(resolvers) = 2
        /\ Len(resolvers[1]) = 1
        /\ Len(resolvers[2]) = 1
        /\ Len(out[a]) = 2
        /\ late[a] = <<>>
        /\ pos[cursor_of(a)] = 2

-----------------------------------------------------------------------------
(* resolver.rs: ResolverList, a Vec of resolvers whose resolve(&mut self)   *)
(* moves the resolvers into stream::iter(..).map(resolve).flatten(), over   *)
(* plain resolvers, BoxResolver and ResultResolver.                         *)

ListMaxResolvers == 2

ListMaxTotalItems == 2

ListMaxCalls == 2

\* Box::new(o) as Self::Resolution / as Self::Error
Box(o) == [boxed |-> o]

\* The closure of map_ok: a success is boxed, an error passes.
map_ok_box(item) ==
    IF item.kind = "Ok" THEN [kind |-> "Ok", value |-> Box(<<item.addr, item.details>>)]
    ELSE item

\* The closure of map_err: an error is boxed, a success passes.
map_err_box(item) ==
    IF item.kind = "Err" THEN [kind |-> "Err", value |-> Box(item.error)]
    ELSE item

\* A plausible slip: the boxed stream keeps the successes only.
wrapper_stream_ok_only(s) ==
    LET boxed == [i \in 1..Len(s) |-> map_err_box(map_ok_box(s[i]))]
    IN  SelectSeq(boxed, LAMBDA item : item.kind = "Ok")

\* The stream of DynResolverWrapper::resolve over the stream s of the
\* wrapped resolver: .map_ok(..).map_err(..)
wrapper_stream(s) == [i \in 1..Len(s) |-> map_err_box(map_ok_box(s[i]))]

\* The stream of ResultResolver::resolve over the stream s of the stored
\* resolver: .map_err(..)
result_stream(s) == [i \in 1..Len(s) |-> map_err_box(s[i])]

\* A resolver R with its own stream type, BoxResolver::new(r) and
\* ResultResolver::new(result).
PlainResolver(script) == [kind |-> "plain", script |-> script]

BoxResolver(r) == [kind |-> "box", inner |-> r]

ResultResolver(result) == [kind |-> "result", inner |-> [some |-> TRUE, val |-> result]]

ResultOk(r) == [ok |-> TRUE, r |-> r]

ResultErr(e) == [ok |-> FALSE, e |-> e]

\* R::resolve(&mut self, cx) of a resolver with its own stream type.
plain_resolve(self) == [self |-> self, stream |-> self.script, panicked |-> FALSE]

\* BoxResolver::resolve: self.inner.resolve(cx), the inner being the
\* DynResolverWrapper of the resolver given to BoxResolver::new.
box_resolve(self) ==
    LET wrapped == plain_resolve(self.inner)
    IN  [self |-> [self EXCEPT !.inner = wrapped.self],
         stream |-> wrapper_stream(wrapped.stream),
         panicked |-> wrapped.panicked]

\* ResultResolver::resolve: self.inner.take().expect(..), then the stored
\* resolver's stream with its errors boxed, or the stored error alone.
result_resolve(self) ==
    IF ~self.inner.some
    THEN [self |-> self, stream |-> <<>>, panicked |-> TRUE]
    ELSE LET taken == [self EXCEPT !.inner = [some |-> FALSE]]
         IN  IF self.inner.val.ok
             THEN LET r == plain_resolve(self.inner.val.r)
                  IN  [self |-> taken, stream |-> result_stream(r.stream),
                       panicked |-> r.panicked]
             ELSE [self |-> taken,
                   stream |-> <<[kind |-> "Err", value |-> Box(self.inner.val.e)]>>,
                   panicked |-> FALSE]

\* resolver.resolve(cx.clone()) on a resolver of the list.
list_leaf_resolve(r) ==
    IF r.kind = "plain" THEN plain_resolve(r)
    ELSE IF r.kind = "box" THEN box_resolve(r)
    ELSE result_resolve(r)

\* ResolverList::new: the list owns the resolvers given, here by their
\* place in the store of resolver instances.
list_new(ids) == [resolvers |-> ids]

\* A plausible slip: the resolvers are resolved in place (iter_mut) and
\* stay in the list.
list_resolve_in_place(self) ==
    [self   |-> self,
     stream |-> [iter |-> self.resolvers, some |-> FALSE, next |-> <<>>]]

\* ResolverList::resolve: the resolvers are swapped out of self into the
\* stream; self keeps an empty Vec.
list_resolve(self) ==
    [self   |-> [resolvers |-> <<>>],
     stream |-> [iter |-> self.resolvers, some |-> FALSE, next |-> <<>>]]

\* A plausible slip: one poll of the inner stream after taking it, as in
\* the slice combinator, instead of Flatten's loop.
RECURSIVE flatten_poll_once(_, _, _)
flatten_poll_once(st, store, ready) ==
    LET cur == IF st.some THEN stream_poll_next(st.next, ready)
               ELSE [res |-> ReadyNone, stream |-> <<>>]
    IN  IF cur.res.tag # "None"
        THEN [res |-> cur.res, stream |-> [st EXCEPT !.next = cur.stream],
              store |-> store, invoked |-> <<>>, panicked |-> FALSE]
        ELSE IF st.iter = <<>>
        THEN [res |-> ReadyNone, stream |-> [st EXCEPT !.some = FALSE, !.next = <<>>],
              store |-> store, invoked |-> <<>>, panicked |-> FALSE]
        ELSE LET id == Head(st.iter)
                 r == list_leaf_resolve(store[id])
                 first == stream_poll_next(r.stream, ready)
             IN  [res |-> first.res,
                  stream |-> [iter |-> Tail(st.iter), some |-> TRUE, next |-> first.stream],
                  store |-> [store EXCEPT ![id] = r.self],
                  invoked |-> <<id>>, panicked |-> r.panicked]

\* poll_next of stream::iter(resolvers).map(|r| r.resolve(cx)).flatten():
\* the inner stream is polled while it has items; when it is exhausted, or
\* when there is none yet, the next resolver is taken and resolved.
RECURSIVE flatten_poll_next(_, _, _)
flatten_poll_next(st, store, ready) ==
    IF st.some
    THEN LET r == stream_poll_next(st.next, ready)
         IN  IF r.res.tag # "None"
             THEN [res |-> r.res, stream |-> [st EXCEPT !.next = r.stream],
                   store |-> store, invoked |-> <<>>, panicked |-> FALSE]
             ELSE flatten_poll_next([st EXCEPT !.some = FALSE, !.next = <<>>], store, ready)
    ELSE IF st.iter = <<>>
         THEN [res |-> ReadyNone, stream |-> st, store |-> store,
               invoked |-> <<>>, panicked |-> FALSE]
         ELSE LET id == Head(st.iter)
                  r == list_leaf_resolve(store[id])
                  rest == flatten_poll_next(
                              [iter |-> Tail(st.iter), some |-> TRUE, next |-> r.stream],
                              [store EXCEPT ![id] = r.self], ready)
              IN  [res |-> rest.res, stream |-> rest.stream, store |-> rest.store,
                   invoked |-> <<id>> \o rest.invoked,
                   panicked |-> r.panicked \/ rest.panicked]

\* The lists a ResolverList is built from: resolvers with their own stream
\* type, BoxResolvers over such resolvers, or ResultResolvers holding such
\* a resolver or an error.
ListKinds == {"plain", "box", "result"}

ResolversOf(kind, scripts, errs) ==
    [i \in 1..Len(scripts) |->
        IF kind = "plain" THEN PlainResolver(scripts[i])
        ELSE IF kind = "box" THEN BoxResolver(PlainResolver(scripts[i]))
        ELSE IF i \in errs THEN ResultResolver(ResultErr("Other"))
        ELSE ResultResolver(ResultOk(PlainResolver(scripts[i])))]

InitList ==
    /\ CoreIdle
    /\ dns = Unused /\ js = Unused /\ nest = Unused /\ http = Unused /\ net = Unused
    /\ \E kind \in ListKinds, scripts \in ResolverLists(ListMaxResolvers, ListMaxTotalItems) :
       \E errs \in SUBSET (1..Len(scripts)) :
           /\ kind # "result" => errs = {}
           /\ \A i \in errs : scripts[i] = <<>>
           /\ rl = [on |-> TRUE,
                    built |-> ResolversOf(kind, scripts, errs),
                    store |-> ResolversOf(kind, scripts, errs),
                    self |-> list_new([i \in 1..Len(scripts) |-> i]),
                    seqs |-> <<>>,
                    panicked |-> FALSE]

\* A call of resolve on the list: one more sequence.
ListResolve ==
    /\ Len(rl.seqs) < ListMaxCalls
    /\ LET r == list_resolve(rl.self)
       IN  rl' = [rl EXCEPT !.self = r.self,
                            !.seqs = Append(@, [stream |-> r.stream, out |-> <<>>,
                                                 invoked |-> <<>>, last |-> NotPolled,
                                                 ended |-> FALSE])]
    /\ UNCHANGED <<coreVars, dns, js, nest, http, net>>

\* One poll_next of the k-th sequence.
ListPoll(k, ready) ==
    /\ k \in 1..Len(rl.seqs)
    /\ ~rl.panicked
    /\ LET q == rl.seqs[k]
           r == flatten_poll_next(q.stream, rl.store, ready)
       IN  rl' = [rl EXCEPT !.store = r.store,
                            !.panicked = r.panicked,
                            !.seqs[k] =
                      [stream  |-> r.stream,
                       out     |-> IF r.res.tag = "Some" /\ ~q.ended
                                   THEN Append(q.out, r.res.item) ELSE q.out,
                       invoked |-> q.invoked \o r.invoked,
                       last    |-> r.res,
                       ended   |-> q.ended \/ r.res.tag = "None"]]
    /\ UNCHANGED <<coreVars, dns, js, nest, http, net>>

NextList ==
    \/ ListResolve
    \/ \E k \in 1..ListMaxCalls, ready \in BOOLEAN : ListPoll(k, ready)

SpecList == InitList /\ [][NextList]_vars

\* C11: a second resolve call on the same ResolverList yields a fresh
\* sequence with the same items as the first call.
C11_SecondCallSameItems ==
    \A k \in 1..Len(rl.seqs) :
        (rl.seqs[1].ended /\ rl.seqs[k].ended) => rl.seqs[k].out = rl.seqs[1].out

\* The streams of the first n resolvers the list was built from, each
\* resolved on its own, one after the other.
RECURSIVE list_concat(_, _)
list_concat(built, n) ==
    IF n = 0 THEN <<>>
    ELSE list_concat(built, n - 1) \o list_leaf_resolve(built[n]).stream

\* C22: the first resolve call on a ResolverList yields the streams of its
\* resolvers one after the other in list order; each resolver is invoked
\* exactly once, in order, and only after every item of the resolvers
\* before it was emitted; a resolver with an empty stream is passed over
\* and the end is reported only when every resolver was invoked.
C22_FirstCallConcatenates ==
    Len(rl.seqs) >= 1 =>
        LET q == rl.seqs[1]
            n == Len(rl.built)
        IN  /\ IsPrefix(q.out, list_concat(rl.built, n))
            /\ q.invoked = [i \in 1..Len(q.invoked) |-> i]
            /\ Len(q.invoked) <= n
            /\ \A i \in 1..Len(q.invoked) :
                   /\ Len(q.out) >= Len(list_concat(rl.built, i - 1))
                   /\ Len(q.out) <= Len(list_concat(rl.built, Len(q.invoked)))
            /\ q.last = ReadyNone => q.invoked = [i \in 1..n |-> i]
            /\ q.ended => q.out = list_concat(rl.built, n)

\* C22 witness: the first resolver of the list had nothing, the items of
\* the second one were emitted and the sequence ended.
C22_Witness ==
    /\ Len(rl.seqs) >= 1
    /\ Len(rl.built) = 2
    /\ rl.built[1] = PlainResolver(<<>>)
    /\ rl.built[2].kind = "plain"
    /\ Len(rl.built[2].script) = 2
    /\ rl.seqs[1].ended
    /\ rl.seqs[1].out = rl.built[2].script
    /\ rl.seqs[1].invoked = <<1, 2>>

\* The scripts of the resolvers wrapped by the BoxResolvers of a list, one
\* after the other.
RECURSIVE wrapped_items(_)
wrapped_items(built) ==
    IF built = <<>> THEN <<>>
    ELSE Head(built).inner.script \o wrapped_items(Tail(built))

\* C23: a boxed resolver yields item for item the sequence of the resolver
\* it wraps: same length and order, a success a boxed success, an error a
\* boxed error, the boxed value the original one; the &dyn Resolver and
\* array forms of lib.rs return what the resolver or slice they stand for
\* returns.
C23_ErasurePreservesSequence ==
    /\ (Len(rl.seqs) >= 1 /\ \A i \in 1..Len(rl.built) : rl.built[i].kind = "box") =>
           LET q == rl.seqs[1]
               orig == wrapped_items(rl.built)
           IN  /\ Len(q.out) <= Len(orig)
               /\ q.ended => Len(q.out) = Len(orig)
               /\ \A i \in 1..Len(q.out) :
                      /\ q.out[i].kind = orig[i].kind
                      /\ orig[i].kind = "Ok" =>
                             q.out[i].value.boxed = <<orig[i].addr, orig[i].details>>
                      /\ orig[i].kind = "Err" => q.out[i].value.boxed = orig[i].error
    /\ \A i \in 1..Len(rl.built) : \A v \in Version :
           rl.built[i].kind = "plain" =>
               /\ dyn_resolve(rl.built[i].script, v) = rl.built[i].script
               /\ array_resolve(<<rl.built[i].script>>, v).stream = rl.built[i].script

\* C23 witness: a drained list of BoxResolvers emitted a boxed error and a
\* boxed success.
C23_Witness ==
    /\ Len(rl.seqs) >= 1
    /\ rl.built # <<>>
    /\ \A i \in 1..Len(rl.built) : rl.built[i].kind = "box"
    /\ rl.seqs[1].ended
    /\ Len(rl.seqs[1].out) = 2
    /\ rl.seqs[1].out[1].kind = "Err"
    /\ rl.seqs[1].out[2].kind = "Ok"

\* Every resolver invoked so far, over all the sequences of the list.
RECURSIVE all_invoked(_)
all_invoked(seqs) ==
    IF seqs = <<>> THEN <<>> ELSE Head(seqs).invoked \o all_invoked(Tail(seqs))

\* C29: the first resolve of a ResultResolver takes its stored result: a
\* stored error gives exactly one boxed error item, a stored resolver its
\* own stream with the errors boxed; a second resolve of the same instance
\* panics.  Through a ResolverList, however often the list is resolved, no
\* instance is invoked twice and the panic never happens.
C29_ResultResolverOneShot ==
    /\ ~rl.panicked
    /\ LET inv == all_invoked(rl.seqs)
       IN  /\ \A i, j \in 1..Len(inv) : inv[i] = inv[j] => i = j
           /\ \A id \in 1..Len(rl.store) :
                  rl.store[id].kind = "result" =>
                      (rl.store[id].inner.some <=> id \notin Range(inv))
    /\ \A k \in 2..Len(rl.seqs) : rl.seqs[k].invoked = <<>>
    /\ \A id \in 1..Len(rl.built) :
           rl.built[id].kind = "result" =>
               LET first == result_resolve(rl.built[id])
                   stored == rl.built[id].inner.val
               IN  /\ ~first.panicked
                   /\ ~first.self.inner.some
                   /\ ~stored.ok =>
                          first.stream = <<[kind |-> "Err", value |-> [boxed |-> stored.e]]>>
                   /\ stored.ok =>
                          /\ Len(first.stream) = Len(stored.r.script)
                          /\ \A i \in 1..Len(first.stream) :
                                 IF stored.r.script[i].kind = "Ok"
                                 THEN first.stream[i] = stored.r.script[i]
                                 ELSE first.stream[i] =
                                          [kind |-> "Err",
                                           value |-> [boxed |-> stored.r.script[i].error]]
                   /\ result_resolve(first.self).panicked

\* C29 witness: a list of a ResultResolver holding an error and one
\* holding a resolver was resolved twice and both sequences were drained.
C29_Witness ==
    /\ Len(rl.seqs) = 2
    /\ Len(rl.built) = 2
    /\ rl.built[1] = ResultResolver(ResultErr("Other"))
    /\ rl.built[2].kind = "result"
    /\ rl.built[2].inner.val.ok
    /\ rl.seqs[1].ended /\ rl.seqs[2].ended
    /\ Len(rl.seqs[1].out) = 2
    /\ rl.seqs[1].invoked = <<1, 2>>

-----------------------------------------------------------------------------
(* The DNS resolver of dns.rs: Resolver::resolve, DnsResolutions and the    *)
(* one-query stream of resolve(server, port, query, method).                *)

DnsMaxServers == 2

QueryMethod == {"A", "AAAA", "TXT"}

\* The character strings of a TXT record: bytes that are UTF-8 or not, and
\* the text they hold.
TxtStrings ==
    {[utf8 |-> TRUE, text |-> "203.0.113.5"],
     [utf8 |-> TRUE, text |-> "2001:db8::1"],
     [utf8 |-> TRUE, text |-> "no address"],
     [utf8 |-> FALSE, text |-> "203.0.113.5"]}

\* str::from_utf8
from_utf8(bytes) ==
    IF bytes.utf8 THEN [ok |-> TRUE, str |-> bytes.text] ELSE [ok |-> FALSE]

\* str::parse::<IpAddr>
parse_ip(str) ==
    IF str = AddrV4.host THEN [ok |-> TRUE, addr |-> AddrV4]
    ELSE IF str = AddrV6.host THEN [ok |-> TRUE, addr |-> AddrV6]
    ELSE [ok |-> FALSE]

RDataA == [type |-> "A", addr |-> AddrV4]

RDataAAAA == [type |-> "AAAA", addr |-> AddrV6]

RDataTXT(txt) == [type |-> "TXT", txt |-> txt]

RDataCNAME == [type |-> "CNAME"]

\* What dns_query may come back with: an error of the client, or a
\* response with its answer records.
NoResponse == [ok |-> FALSE]

DnsResponse(answers) == [ok |-> TRUE, answers |-> answers]

DnsResponses ==
    {NoResponse,
     DnsResponse(<<>>),
     DnsResponse(<<RDataA>>),
     DnsResponse(<<RDataAAAA, RDataA>>),
     DnsResponse(<<RDataTXT(<<[utf8 |-> TRUE, text |-> "203.0.113.5"]>>)>>),
     DnsResponse(<<RDataTXT(<<>>)>>),
     DnsResponse(<<RDataCNAME, RDataA>>),
     DnsResponse(<<RDataTXT(<<[utf8 |-> FALSE, text |-> "203.0.113.5"]>>)>>),
     DnsResponse(<<RDataTXT(<<[utf8 |-> TRUE, text |-> "no address"],
                             [utf8 |-> TRUE, text |-> "203.0.113.5"]>>)>>),
     DnsResponse(<<RDataTXT(<<[utf8 |-> TRUE, text |-> "2001:db8::1"]>>)>>)}

\* A plausible slip: the first answer of the type asked for is taken,
\* wherever it stands among the answers.
parse_dns_response_any_answer(response, method) ==
    LET wanted == SelectSeq(response.answers, LAMBDA answer : answer.type = method)
    IN  IF response.answers = <<>> THEN Err("Addr")
        ELSE IF wanted = <<>> THEN Err("Dns")
        ELSE LET answer == Head(wanted)
             IN  IF answer.type \in {"A", "AAAA"} THEN [kind |-> "Ok", addr |-> answer.addr]
                 ELSE IF answer.txt = <<>> THEN Err("Addr")
                 ELSE LET str == from_utf8(Head(answer.txt))
                      IN  IF ~str.ok THEN Err("Addr")
                          ELSE LET addr == parse_ip(str.str)
                               IN  IF ~addr.ok THEN Err("Addr")
                                   ELSE [kind |-> "Ok", addr |-> addr.addr]

parse_dns_response(response, method) ==
    IF response.answers = <<>> THEN Err("Addr")
    ELSE LET answer == Head(response.answers)
         IN  IF answer.type = "A" /\ method = "A" THEN [kind |-> "Ok", addr |-> answer.addr]
             ELSE IF answer.type = "AAAA" /\ method = "AAAA"
                  THEN [kind |-> "Ok", addr |-> answer.addr]
             ELSE IF answer.type = "TXT" /\ method = "TXT"
                  THEN IF answer.txt = <<>> THEN Err("Addr")
                       ELSE LET str == from_utf8(Head(answer.txt))
                            IN  IF ~str.ok THEN Err("Addr")
                                ELSE LET addr == parse_ip(str.str)
                                     IN  IF ~addr.ok THEN Err("Addr")
                                         ELSE [kind |-> "Ok", addr |-> addr.addr]
             ELSE Err("Dns")

\* The future of resolve(server, ..): dns_query(..).await?, then
\* parse_dns_response(..)?, then the details.
query_result(server, response, method) ==
    IF ~response.ok THEN Err("Dns")
    ELSE LET addr == parse_dns_response(response, method)
         IN  IF addr.kind = "Err" THEN addr
             ELSE Ok(addr.addr, [server |-> server, method |-> method])

\* A plausible slip: the query is sent when the stream is built
\* (a future started at once instead of a lazy one).
server_resolve_eager(server) ==
    [stream |-> [server |-> server, st |-> "inflight"], sent |-> <<server>>]

\* resolve(server, port, query, method): stream::once over a future that
\* has not been polled.
server_resolve(server) ==
    [stream |-> [server |-> server, st |-> "unpolled"], sent |-> <<>>]

\* poll_next of that stream::once: the first poll starts the query, the
\* poll in which the future completes yields its one item.
once_poll_next(s, ready, response, method) ==
    IF s.st = "done" THEN [res |-> ReadyNone, stream |-> s, sent |-> <<>>, completed |-> {}]
    ELSE LET sent == IF s.st = "unpolled" THEN <<s.server>> ELSE <<>>
         IN  IF ~ready
             THEN [res |-> PollPending, stream |-> [s EXCEPT !.st = "inflight"],
                   sent |-> sent, completed |-> {}]
             ELSE [res |-> ReadySome(query_result(s.server, response, method)),
                   stream |-> [s EXCEPT !.st = "done"],
                   sent |-> sent, completed |-> {s.server}]

\* A plausible slip: the server list is used as configured.
servers_unfiltered(servers, v) == servers

\* self.servers.iter().copied().filter(|addr| version.matches(*addr)).collect()
RECURSIVE servers_filter(_, _)
servers_filter(servers, v) ==
    IF servers = <<>> THEN <<>>
    ELSE IF matches(v, Head(servers))
         THEN <<Head(servers)>> \o servers_filter(Tail(servers), v)
         ELSE servers_filter(Tail(servers), v)

\* Vec::pop
vec_pop(vec) ==
    IF vec = <<>> THEN [some |-> FALSE, vec |-> vec]
    ELSE [some |-> TRUE, val |-> vec[Len(vec)], vec |-> SubSeq(vec, 1, Len(vec) - 1)]

\* A plausible slip: the servers are filtered before the name is checked.
dns_resolve_filter_first(self, v) ==
    LET first_server == vec_pop(servers_filter(self.servers, v))
    IN  IF ~first_server.some
        THEN [stream |-> [kind |-> "empty"], sent |-> <<>>]
        ELSE IF ~self.name_ok
        THEN [stream |-> [kind |-> "once", item |-> <<Err("Other")>>], sent |-> <<>>]
        ELSE LET built == server_resolve(first_server.val)
             IN  [stream |-> [kind |-> "resolutions",
                              method |-> self.method,
                              servers |-> first_server.vec,
                              stream |-> built.stream],
                  sent |-> built.sent]

\* <dns::Resolver as crate::Resolver>::resolve: the stream it returns and
\* the queries sent while building it.
dns_resolve(self, v) ==
    IF ~self.name_ok
    THEN [stream |-> [kind |-> "once", item |-> <<Err("Other")>>], sent |-> <<>>]
    ELSE LET first_server == vec_pop(servers_filter(self.servers, v))
         IN  IF ~first_server.some
             THEN [stream |-> [kind |-> "empty"], sent |-> <<>>]
             ELSE LET built == server_resolve(first_server.val)
                  IN  [stream |-> [kind |-> "resolutions",
                                   method |-> self.method,
                                   servers |-> first_server.vec,
                                   stream |-> built.stream],
                       sent |-> built.sent]

\* A plausible slip: an error item of one server ends the sequence.
resolutions_stop_at_error(s, ready, response) ==
    LET first == once_poll_next(s.stream, ready, response, s.method)
    IN  IF first.res.tag = "Pending" \/ (first.res.tag = "Some" /\ first.res.item.kind = "Ok")
        THEN [res |-> first.res, stream |-> [s EXCEPT !.stream = first.stream],
              sent |-> first.sent, completed |-> first.completed]
        ELSE [res |-> first.res,
              stream |-> [s EXCEPT !.stream = first.stream, !.servers = <<>>],
              sent |-> first.sent, completed |-> first.completed]

\* DnsResolutions::poll_next
resolutions_poll_next(s, ready, response) ==
    LET first == once_poll_next(s.stream, ready, response, s.method)
    IN  IF first.res.tag # "None"
        THEN [res |-> first.res, stream |-> [s EXCEPT !.stream = first.stream],
              sent |-> first.sent, completed |-> first.completed]
        ELSE LET server == vec_pop(s.servers)
             IN  IF ~server.some
                 THEN [res |-> ReadyNone, stream |-> s, sent |-> <<>>, completed |-> {}]
                 ELSE LET built == server_resolve(server.val)
                          second == once_poll_next(built.stream, ready, response, s.method)
                      IN  [res |-> second.res,
                           stream |-> [s EXCEPT !.servers = server.vec,
                                                !.stream = second.stream],
                           sent |-> built.sent \o second.sent,
                           completed |-> second.completed]

\* poll_next of the stream dns_resolve returned: stream::once of a ready
\* error, stream::empty, or DnsResolutions.
dns_poll_next(s, ready, response) ==
    IF s.kind = "once"
    THEN IF s.item = <<>>
         THEN [res |-> ReadyNone, stream |-> s, sent |-> <<>>, completed |-> {}]
         ELSE [res |-> ReadySome(Head(s.item)), stream |-> [s EXCEPT !.item = <<>>],
               sent |-> <<>>, completed |-> {}]
    ELSE IF s.kind = "empty"
    THEN [res |-> ReadyNone, stream |-> s, sent |-> <<>>, completed |-> {}]
    ELSE resolutions_poll_next(s, ready, response)

\* The server lists a resolver may be configured with: the addresses are
\* distinct, of either family.
ServerLists ==
    UNION {[1..n -> {"v4", "v6"}] : n \in 0..DnsMaxServers}

ServersOf(fams) == [i \in 1..Len(fams) |-> [family |-> fams[i], host |-> i]]

InitDns ==
    /\ CoreIdle
    /\ rl = Unused /\ js = Unused /\ nest = Unused /\ http = Unused /\ net = Unused
    /\ \E name_ok \in BOOLEAN, fams \in ServerLists, method \in QueryMethod, v \in Version :
           dns = [on       |-> TRUE,
                  self     |-> [name_ok |-> name_ok, servers |-> ServersOf(fams),
                                method |-> method],
                  version  |-> v,
                  built    |-> FALSE,
                  stream   |-> [kind |-> "empty"],
                  queries  |-> <<>>,
                  responses |-> <<>>,
                  inflight |-> {},
                  out      |-> <<>>,
                  last     |-> NotPolled,
                  ended    |-> FALSE]

\* The call of resolve on the DNS resolver.
DnsResolve ==
    /\ dns.on /\ ~dns.built
    /\ LET r == dns_resolve(dns.self, dns.version)
       IN  dns' = [dns EXCEPT !.built = TRUE,
                              !.stream = r.stream,
                              !.queries = @ \o r.sent,
                              !.inflight = @ \cup Range(r.sent)]
    /\ UNCHANGED <<coreVars, rl, js, nest, http, net>>

\* One poll_next of the stream; response is what the server queried
\* answers if its query completes in this poll.
DnsPoll(ready, response) ==
    /\ dns.on /\ dns.built
    /\ LET r == dns_poll_next(dns.stream, ready, response)
       IN  dns' = [dns EXCEPT !.stream = r.stream,
                              !.queries = @ \o r.sent,
                              !.inflight = (@ \cup Range(r.sent)) \ r.completed,
                              !.responses = IF r.completed # {} THEN Append(@, response) ELSE @,
                              !.out = IF r.res.tag = "Some" THEN Append(@, r.res.item) ELSE @,
                              !.last = r.res,
                              !.ended = @ \/ r.res.tag = "None"]
    /\ UNCHANGED <<coreVars, rl, js, nest, http, net>>

NextDns ==
    \/ DnsResolve
    \/ \E ready \in BOOLEAN, response \in DnsResponses : DnsPoll(ready, response)

SpecDns == InitDns /\ [][NextDns]_vars

\* The configured servers the requested version matches, as configured.
Matching == SelectSeq(dns.self.servers, LAMBDA addr :
                \/ dns.version = "Any"
                \/ dns.version = "V4" /\ addr.family = "v4"
                \/ dns.version = "V6" /\ addr.family = "v6")

\* The server whose stream is the current one.
ActiveServer ==
    IF dns.built /\ dns.stream.kind = "resolutions" THEN {dns.stream.stream.server} ELSE {}

\* C24: parse_dns_response gives a value for every response and looks at
\* the first answer only: no answer, or a TXT record with no string or
\* whose first string is not UTF-8 or not an address, gives Error::Addr; a
\* first answer of another type than the query method gives the DNS error;
\* a first answer A, AAAA or TXT of the method's type gives its address.
C24_ParseFirstAnswerOnly ==
    /\ \A response \in DnsResponses \ {NoResponse}, method \in QueryMethod :
           parse_dns_response(response, method).kind \in {"Ok", "Err"}
    /\ dns.self.name_ok =>
           /\ Len(dns.responses) = Len(dns.out)
           /\ \A i \in 1..Len(dns.out) :
                  LET response == dns.responses[i]
                      method == dns.self.method
                      item == dns.out[i]
                  IN  IF ~response.ok THEN item = Err("Dns")
                      ELSE IF response.answers = <<>> THEN item = Err("Addr")
                      ELSE LET first == response.answers[1]
                           IN  IF first.type # method THEN item = Err("Dns")
                               ELSE IF first.type \in {"A", "AAAA"}
                                    THEN item.kind = "Ok" /\ item.addr = first.addr
                               ELSE IF first.txt = <<>> THEN item = Err("Addr")
                               ELSE IF ~first.txt[1].utf8 THEN item = Err("Addr")
                               ELSE IF first.txt[1].text \notin {AddrV4.host, AddrV6.host}
                                    THEN item = Err("Addr")
                               ELSE item.kind = "Ok" /\ item.addr.host = first.txt[1].text

\* C24 witness: under the A method one server answered with a CNAME
\* before its A record and another one with an A record.
C24_Witness ==
    /\ dns.self.name_ok
    /\ dns.self.method = "A"
    /\ Len(dns.out) = 2
    /\ dns.responses[1] = DnsResponse(<<RDataCNAME, RDataA>>)
    /\ dns.out[1] = Err("Dns")
    /\ dns.responses[2] = DnsResponse(<<RDataA>>)
    /\ dns.out[2].kind = "Ok"

\* C14 as stated: no query goes to a server of the wrong family, and with
\* no matching server the sequence ends at once with no query and no item.
C14_FilterBeforeQuery ==
    /\ \A i \in 1..Len(dns.queries) : dns.queries[i] \in Range(Matching)
    /\ (dns.built /\ Matching = <<>>) =>
           /\ dns.queries = <<>>
           /\ dns.out = <<>>
           /\ dns.last \in {NotPolled, ReadyNone}

\* C14: no query ever goes to a server whose family the requested version
\* does not match; with no matching server no query is sent at all and,
\* when the configured name parses, the sequence ends at once with no item
\* (a name that does not parse gives its one Other error item first).
C14_FilterBeforeQueryNameParsed ==
    /\ \A i \in 1..Len(dns.queries) : dns.queries[i] \in Range(Matching)
    /\ (dns.built /\ Matching = <<>>) =>
           /\ dns.queries = <<>>
           /\ dns.self.name_ok =>
                  (dns.out = <<>> /\ dns.last \in {NotPolled, ReadyNone})
           /\ ~dns.self.name_ok =>
                  /\ dns.out \in {<<>>, <<Err("Other")>>}
                  /\ dns.last = ReadyNone => dns.out = <<Err("Other")>>

\* C14 witness: of two configured servers only the one of the requested
\* family was queried when the sequence ended.
C14_Witness ==
    /\ dns.ended
    /\ dns.self.name_ok
    /\ Len(dns.self.servers) = 2
    /\ dns.self.servers[1].family # dns.self.servers[2].family
    /\ dns.version = "V6"
    /\ Len(dns.queries) = 1
    /\ Len(dns.out) = 1

\* C15: the matching servers are queried in the order they are
\* configured, the first configured one first.
C15_ConfiguredOrder ==
    IsPrefix(dns.queries, Matching)

\* C16 as stated: every matching server is queried exactly once and gives
\* exactly one item, so a drained sequence has as many items as there are
\* matching servers and ends only after all were queried.
C16_OneItemPerServer ==
    /\ \A i, j \in 1..Len(dns.queries) : dns.queries[i] = dns.queries[j] => i = j
    /\ Len(dns.out) + Cardinality(dns.inflight) = Len(dns.queries)
    /\ dns.ended =>
           /\ Len(dns.out) = Len(Matching)
           /\ Range(dns.queries) = Range(Matching)

\* C16: when the configured name parses, every matching server is queried
\* exactly once and gives exactly one item, success or error, the sequence
\* going on to the next server after an error: a drained sequence has as
\* many items as there are matching servers and ends only after all of
\* them were queried.  A name that does not parse gives one Other error
\* item and no query.
C16_OneItemPerServerNameParsed ==
    /\ \A i, j \in 1..Len(dns.queries) : dns.queries[i] = dns.queries[j] => i = j
    /\ dns.self.name_ok =>
           /\ Len(dns.out) + Cardinality(dns.inflight) = Len(dns.queries)
           /\ \A i \in 1..Len(dns.out) :
                  dns.out[i].kind = "Ok" => dns.out[i].details.server = dns.queries[i]
           /\ dns.last = ReadyNone <=> dns.ended
           /\ dns.ended =>
                  /\ Len(dns.out) = Len(Matching)
                  /\ Range(dns.queries) = Range(Matching)
                  /\ dns.inflight = {}
    /\ ~dns.self.name_ok =>
           /\ dns.queries = <<>>
           /\ dns.ended => dns.out = <<Err("Other")>>

\* C16 witness: the first server tried failed, the second one answered
\* with an address, and the sequence ended.
C16_Witness ==
    /\ dns.ended
    /\ dns.self.name_ok
    /\ Len(Matching) = 2
    /\ Len(dns.out) = 2
    /\ dns.out[1].kind = "Err"
    /\ dns.out[2].kind = "Ok"

-----------------------------------------------------------------------------
(* extract_json_ip_field of http.rs, on response bodies written as          *)
(* sequences of characters.                                                 *)

JsonMaxChunks == 4

Quote == "\""

\* The pattern of split_once: r#""ip":"#
IpToken == <<Quote, "i", "p", Quote, ":">>

\* The pieces the bodies are put together from: the property name, a name
\* that only starts with ip, a lone quote, a bare digit, a space and two
\* quoted values.
Chunks ==
    {IpToken,
     <<Quote, "i", "p", "p", Quote, ":">>,
     <<Quote>>,
     <<"1">>,
     <<" ">>,
     <<Quote, "1", Quote>>,
     <<Quote, "2", "1", Quote>>}

RECURSIVE BodiesOf(_)
BodiesOf(n) ==
    IF n = 0 THEN {<<>>}
    ELSE LET shorter == BodiesOf(n - 1)
         IN  shorter \cup {b \o c : b \in shorter, c \in Chunks}

Bodies == BodiesOf(JsonMaxChunks)

\* Whether pat stands in s at index i.
starts_at(s, pat, i) ==
    i + Len(pat) - 1 <= Len(s) /\ SubSeq(s, i, i + Len(pat) - 1) = pat

\* str::find from index i on: the first index at which pat stands, 0 for none.
RECURSIVE str_find(_, _, _)
str_find(s, pat, i) ==
    IF i + Len(pat) - 1 > Len(s) THEN 0
    ELSE IF starts_at(s, pat, i) THEN i
    ELSE str_find(s, pat, i + 1)

\* str::rfind from index i down.
RECURSIVE str_rfind(_, _, _)
str_rfind(s, pat, i) ==
    IF i < 1 THEN 0
    ELSE IF starts_at(s, pat, i) THEN i
    ELSE str_rfind(s, pat, i - 1)

\* A plausible slip: rsplit_once, the last occurrence of the property wins.
rsplit_once(s, pat) ==
    LET i == str_rfind(s, pat, Len(s))
    IN  IF i = 0 THEN [some |-> FALSE]
        ELSE [some |-> TRUE, before |-> SubSeq(s, 1, i - 1),
              after |-> SubSeq(s, i + Len(pat), Len(s))]

\* str::split_once
split_once(s, pat) ==
    LET i == str_find(s, pat, 1)
    IN  IF i = 0 THEN [some |-> FALSE]
        ELSE [some |-> TRUE, before |-> SubSeq(s, 1, i - 1),
              after |-> SubSeq(s, i + Len(pat), Len(s))]

\* str::split(ch) collected: the pieces of s between the occurrences of ch.
RECURSIVE str_split(_, _)
str_split(s, ch) ==
    LET i == str_find(s, <<ch>>, 1)
    IN  IF i = 0 THEN <<s>>
        ELSE <<SubSeq(s, 1, i - 1)>> \o str_split(SubSeq(s, i + 1, Len(s)), ch)

\* Iterator::nth, counting from 0.
iter_nth(pieces, n) ==
    IF n + 1 <= Len(pieces) THEN [some |-> TRUE, val |-> pieces[n + 1]]
    ELSE [some |-> FALSE]

OkStr(str) == [kind |-> "Ok", str |-> str]

extract_json_ip_field(s) ==
    LET prop == split_once(s, IpToken)
    IN  IF ~prop.some THEN Err("Addr")
        ELSE LET value == iter_nth(str_split(prop.after, Quote), 1)
             IN  IF ~value.some THEN Err("Addr") ELSE OkStr(value.val)

InitJson ==
    /\ CoreIdle
    /\ rl = Unused /\ dns = Unused /\ nest = Unused /\ http = Unused /\ net = Unused
    /\ \E body \in Bodies :
           js = [on |-> TRUE, body |-> body, called |-> FALSE, result |-> [kind |-> "NotCalled"]]

\* The call extract_json_ip_field(body_str) of http.rs resolve.
JsonExtract ==
    /\ js.on /\ ~js.called
    /\ js' = [js EXCEPT !.called = TRUE, !.result = extract_json_ip_field(js.body)]
    /\ UNCHANGED <<coreVars, rl, dns, nest, http, net>>

NextJson == JsonExtract

SpecJson == InitJson /\ [][NextJson]_vars

\* The indices of s at which the property token stands, and, after index
\* i, the indices at which a double quote stands.
TokenAt(s) == {i \in 1..Len(s) : starts_at(s, IpToken, i)}

QuotesAfter(s, i) == {k \in (i + 1)..Len(s) : s[k] = Quote}

Least(S) == CHOOSE x \in S : \A y \in S : x <= y

\* C17 as stated: the result is the text between the first two double
\* quotes after the first "ip": token; Error::Addr when there is no token
\* or no quoted value (an opening and a closing quote) after it.
C17_ExtractFirstQuotedValue ==
    js.called =>
        IF TokenAt(js.body) = {} THEN js.result = Err("Addr")
        ELSE LET t == Least(TokenAt(js.body)) + Len(IpToken) - 1
                 qs == QuotesAfter(js.body, t)
             IN  IF Cardinality(qs) < 2 THEN js.result = Err("Addr")
                 ELSE LET open == Least(qs)
                          close == Least(qs \ {open})
                      IN  js.result = OkStr(SubSeq(js.body, open + 1, close - 1))

\* C17: the result is the text from the first double quote after the first
\* "ip": token up to the next double quote or, when there is none, to the
\* end of the body; Error::Addr when there is no token or no double quote
\* after it.  With two "ip" properties the first one wins; a name that
\* only starts with ip ("ipp") is not the token.
C17_ExtractUpToNextQuoteOrEnd ==
    js.called =>
        /\ IF TokenAt(js.body) = {} THEN js.result = Err("Addr")
           ELSE LET t == Least(TokenAt(js.body)) + Len(IpToken) - 1
                    qs == QuotesAfter(js.body, t)
                IN  IF qs = {} THEN js.result = Err("Addr")
                    ELSE LET open == Least(qs)
                             close == IF qs \ {open} = {} THEN Len(js.body) + 1
                                      ELSE Least(qs \ {open})
                         IN  js.result = OkStr(SubSeq(js.body, open + 1, close - 1))
        /\ js.body = IpToken \o <<" ">> \o <<Quote, "1", Quote>>
               => js.result = OkStr(<<"1">>)
        /\ js.body = <<Quote, "i", "p", "p", Quote, ":">> \o <<" ">> \o <<Quote, "1", Quote>>
               => js.result = Err("Addr")
        /\ js.body = IpToken \o <<Quote, "1", Quote>> \o IpToken \o <<Quote, "2", "1", Quote>>
               => js.result = OkStr(<<"1">>)

\* C17 witness: the value of the first of two "ip" properties was
\* returned.
C17_Witness ==
    /\ js.called
    /\ Cardinality(TokenAt(js.body)) = 2
    /\ js.body = IpToken \o <<Quote, "1", Quote>> \o IpToken \o <<Quote, "2", "1", Quote>>
    /\ js.result = OkStr(<<"1">>)

-----------------------------------------------------------------------------
(* Nested lists: a slice whose resolvers are slices themselves, as ALL of   *)
(* lib.rs over dns::ALL and http::ALL.                                      *)

NestMaxLists == 2

NestMaxResolvers == 2

NestMaxTotalItems == 2

NestedLists ==
    UNION {[1..n -> ResolverLists(NestMaxResolvers, NestMaxTotalItems)] : n \in 0..NestMaxLists}

\* The stream of an inner list: a DynSliceResolver over that list.
inner_resolve(rs, v) ==
    LET built == slice_resolve(rs, v)
    IN  [rs |-> rs, pos |-> built.pos, stream |-> built.stream]

\* poll_next of the stream of an inner list.
inner_poll_next(s, v, ready) ==
    LET r == poll_next(s.pos, s.stream, s.rs, v, ready)
    IN  [res |-> r.res, stream |-> [s EXCEPT !.pos = r.pos, !.stream = r.stream]]

\* <&[R] as Resolver>::resolve over a list of lists; an empty outer list
\* gives stream::empty(), a stream that holds nothing.
nested_resolve(lists, v) ==
    LET first_resolver == iter_next(0, lists)
    IN  [pos    |-> first_resolver.pos,
         stream |-> IF first_resolver.some
                    THEN inner_resolve(lists[first_resolver.idx], v)
                    ELSE inner_resolve(<<>>, v)]

\* DynSliceResolver::poll_next of the outer list, whose current stream is
\* the DynSliceResolver of an inner list.
nested_poll_next(p, s, lists, v, ready) ==
    LET first == inner_poll_next(s, v, ready)
    IN  IF first.res.tag # "None"
        THEN [res |-> first.res, pos |-> p, stream |-> first.stream]
        ELSE LET next == resolvers_next(p, lists)
             IN  IF ~next.some
                 THEN [res |-> ReadyNone, pos |-> next.pos, stream |-> first.stream]
                 ELSE LET second == inner_poll_next(inner_resolve(lists[next.idx], v), v, ready)
                      IN  [res |-> second.res, pos |-> next.pos, stream |-> second.stream]

InitNested ==
    /\ CoreIdle
    /\ rl = Unused /\ dns = Unused /\ js = Unused /\ http = Unused /\ net = Unused
    /\ \E lists \in NestedLists, v \in Version :
           nest = [on |-> TRUE, lists |-> lists, version |-> v, started |-> FALSE,
                   pos |-> 0, stream |-> inner_resolve(<<>>, v),
                   out |-> <<>>, last |-> NotPolled, ended |-> FALSE]

\* The call of resolve on the list of lists.
NestedStart ==
    /\ nest.on /\ ~nest.started
    /\ LET built == nested_resolve(nest.lists, nest.version)
       IN  nest' = [nest EXCEPT !.started = TRUE, !.pos = built.pos, !.stream = built.stream]
    /\ UNCHANGED <<coreVars, rl, dns, js, http, net>>

\* One poll_next of the stream of the list of lists.
NestedPoll(ready) ==
    /\ nest.on /\ nest.started
    /\ LET r == nested_poll_next(nest.pos, nest.stream, nest.lists, nest.version, ready)
       IN  nest' = [nest EXCEPT !.pos = r.pos,
                                !.stream = r.stream,
                                !.out = IF r.res.tag = "Some" /\ ~nest.ended
                                        THEN Append(@, r.res.item) ELSE @,
                                !.last = r.res,
                                !.ended = @ \/ r.res.tag = "None"]
    /\ UNCHANGED <<coreVars, rl, dns, js, http, net>>

NextNested ==
    \/ NestedStart
    \/ \E ready \in BOOLEAN : NestedPoll(ready)

SpecNested == InitNested /\ [][NextNested]_vars

\* The leaf resolvers of a list of lists, depth first.
RECURSIVE flattened(_)
flattened(lists) ==
    IF lists = <<>> THEN <<>> ELSE Head(lists) \o flattened(Tail(lists))

\* What resolve over the flattened list emits up to its end-of-sequence.
FlatItems ==
    LET built == slice_resolve(flattened(nest.lists), nest.version)
    IN  solo_items(built.pos, built.stream, flattened(nest.lists), nest.version)

\* C18: resolving a list of lists yields the same item sequence as
\* resolving the flattened list of its leaf resolvers, for every version
\* and also when some leaves are immediately exhausted.
C18_NestedEqualsFlattened ==
    nest.ended => nest.out = FlatItems

-----------------------------------------------------------------------------
(* The HTTP resolver of http.rs: Resolver::resolve and HttpResolutions.     *)

ExtractMethod == {"PlainText", "StripDoubleQuotes", "ExtractJsonIpField"}

\* What the future of resolve(version, uri, method) may complete with.
HttpResults ==
    {Ok(AddrV4, "details"), Ok(AddrV6, "details"), Err("Http"), Err("Addr")}

\* <http::Resolver as crate::Resolver>::resolve: a uri that does not parse
\* gives stream::once of a ready error; otherwise HttpRequest over the
\* boxed future of resolve(version, uri, method), not polled yet.
http_resolve(self, v) ==
    IF ~self.uri_ok
    THEN [kind |-> "once", item |-> <<Err("Other")>>]
    ELSE [kind |-> "resolutions", state |-> "HttpRequest", response |-> "unpolled"]

\* response.poll(cx) on the boxed future: the first poll sends the
\* request; polling a future that has completed is a fault.
response_poll(fut, ready, result) ==
    IF fut = "done" THEN [res |-> PollPending, fut |-> fut, sent |-> 0, repolled |-> TRUE]
    ELSE LET sent == IF fut = "unpolled" THEN 1 ELSE 0
         IN  IF ~ready
             THEN [res |-> PollPending, fut |-> "inflight", sent |-> sent, repolled |-> FALSE]
             ELSE [res |-> ReadySome(result), fut |-> "done", sent |-> sent,
                   repolled |-> FALSE]

\* A plausible slip: the state is left at HttpRequest after the item.
resolutions_stay_in_request(s, ready, result) ==
    LET response == response_poll(s.response, ready, result)
    IN  [res |-> response.res, stream |-> [s EXCEPT !.response = response.fut],
         sent |-> response.sent, repolled |-> response.repolled]

\* HttpResolutions::poll_next
http_resolutions_poll_next(s, ready, result) ==
    IF s.state = "HttpRequest"
    THEN LET response == response_poll(s.response, ready, result)
         IN  IF response.res.tag = "Pending"
             THEN [res |-> PollPending, stream |-> [s EXCEPT !.response = response.fut],
                   sent |-> response.sent, repolled |-> response.repolled]
             ELSE [res |-> response.res,
                   stream |-> [s EXCEPT !.state = "Done", !.response = response.fut],
                   sent |-> response.sent, repolled |-> response.repolled]
    ELSE [res |-> ReadyNone, stream |-> s, sent |-> 0, repolled |-> FALSE]

\* poll_next of the stream http_resolve returned.
http_poll_next(s, ready, result) ==
    IF s.kind = "once"
    THEN IF s.item = <<>>
         THEN [res |-> ReadyNone, stream |-> s, sent |-> 0, repolled |-> FALSE]
         ELSE [res |-> ReadySome(Head(s.item)), stream |-> [s EXCEPT !.item = <<>>],
               sent |-> 0, repolled |-> FALSE]
    ELSE http_resolutions_poll_next(s, ready, result)

InitHttp ==
    /\ CoreIdle
    /\ rl = Unused /\ dns = Unused /\ js = Unused /\ nest = Unused /\ net = Unused
    /\ \E uri_ok \in BOOLEAN, method \in ExtractMethod, v \in Version :
           http = [on       |-> TRUE,
                   self     |-> [uri_ok |-> uri_ok, method |-> method],
                   version  |-> v,
                   built    |-> FALSE,
                   stream   |-> [kind |-> "once", item |-> <<>>],
                   requests |-> 0,
                   repolled |-> FALSE,
                   out      |-> <<>>,
                   last     |-> NotPolled,
                   ended    |-> FALSE]

\* The call of resolve on the HTTP resolver.
HttpResolve ==
    /\ http.on /\ ~http.built
    /\ http' = [http EXCEPT !.built = TRUE, !.stream = http_resolve(http.self, http.version)]
    /\ UNCHANGED <<coreVars, rl, dns, js, nest, net>>

\* One poll_next of the stream; result is what the request completes with
\* if it completes in this poll.
HttpPoll(ready, result) ==
    /\ http.on /\ http.built /\ ~http.repolled
    /\ LET r == http_poll_next(http.stream, ready, result)
       IN  http' = [http EXCEPT !.stream = r.stream,
                                !.requests = @ + r.sent,
                                !.repolled = r.repolled,
                                !.out = IF r.res.tag = "Some" /\ Len(@) < 2
                                        THEN Append(@, r.res.item) ELSE @,
                                !.last = r.res,
                                !.ended = @ \/ r.res.tag = "None"]
    /\ UNCHANGED <<coreVars, rl, dns, js, nest, net>>

NextHttp ==
    \/ HttpResolve
    \/ \E ready \in BOOLEAN, result \in HttpResults : HttpPoll(ready, result)

SpecHttp == InitHttp /\ [][NextHttp]_vars

\* One resolver of either kind, DNS or HTTP, is resolved and polled.
InitAdapters == InitDns \/ InitHttp

NextAdapters ==
    \/ NextDns
    \/ NextHttp

SpecAdapters == InitAdapters /\ [][NextAdapters]_vars

\* C26: the HTTP sequence is HttpRequest then Done: exactly one item, the
\* result of the one request, Done from the poll that emits it on,
\* HttpRequest as long as the request is pending, and in Done every poll
\* reports end-of-sequence and the finished request is not polled again.
C26_HttpTwoStates ==
    (http.built /\ http.self.uri_ok) =>
        /\ http.stream.state \in {"HttpRequest", "Done"}
        /\ http.stream.state = "HttpRequest" <=> http.out = <<>>
        /\ http.stream.state = "Done" <=> Len(http.out) = 1
        /\ http.stream.state = "HttpRequest" => http.last \in {NotPolled, PollPending}
        /\ http.stream.state = "Done" => http.last \in {ReadySome(http.out[1]), ReadyNone}
        /\ http.stream.state = "Done" <=> http.stream.response = "done"
        /\ http.ended <=> (http.stream.state = "Done" /\ http.last = ReadyNone)
        /\ http.requests <= 1
        /\ http.last = PollPending => http.requests = 1
        /\ http.last = NotPolled => http.requests = 0
        /\ ~http.repolled

\* C26 witness: the request's error was emitted, the state is Done and a
\* later poll reported end-of-sequence, with one request sent in all.
C26_Witness ==
    /\ http.built
    /\ http.self.uri_ok
    /\ http.stream.state = "Done"
    /\ http.out = <<Err("Http")>>
    /\ http.ended
    /\ http.requests = 1

\* C25: a resolver whose configured name (DNS) or uri (HTTP) does not
\* parse yields exactly one Other error item and then end-of-sequence,
\* without any query or request, for every version and, for DNS, whether
\* or not a configured server matches the version.
C25_ConfigErrorIsOneOtherItem ==
    /\ (dns.on /\ dns.built /\ ~dns.self.name_ok) =>
           /\ dns.queries = <<>> /\ dns.inflight = {}
           /\ dns.last = NotPolled => dns.out = <<>>
           /\ dns.last # NotPolled => dns.out = <<Err("Other")>>
           /\ dns.last \in {NotPolled, ReadySome(Err("Other")), ReadyNone}
           /\ dns.ended <=> dns.last = ReadyNone
    /\ (http.on /\ http.built /\ ~http.self.uri_ok) =>
           /\ http.requests = 0
           /\ http.last = NotPolled => http.out = <<>>
           /\ http.last # NotPolled => http.out = <<Err("Other")>>
           /\ http.last \in {NotPolled, ReadySome(Err("Other")), ReadyNone}
           /\ http.ended <=> http.last = ReadyNone

\* C25 witness: a DNS resolver with a name that does not parse and two
\* servers, none of the requested family, gave its one Other error and
\* ended.
C25_Witness ==
    /\ dns.on
    /\ ~dns.self.name_ok
    /\ Len(dns.self.servers) = 2
    /\ Matching = <<>>
    /\ dns.out = <<Err("Other")>>
    /\ dns.ended

-----------------------------------------------------------------------------
(* A slice of DNS and HTTP resolvers driven through the slice combinator   *)
(* of lib.rs: the queries each pull sends, by resolver.                    *)

NetMaxResolvers == 2

\* The endpoint a http::Resolver sends its one request to.
Endpoint == [family |-> "uri", host |-> 0]

\* The server lists of the DNS resolvers in a list: none, one server, two
\* servers of one family, two servers of both families.
NetServerLists == {<<>>, <<"v4">>, <<"v4", "v4">>, <<"v6", "v4">>}

\* The resolvers a list may hold: dns::Resolver values with a name that
\* parses and one with a name that does not, http::Resolver values with a
\* uri that parses and one that does not.
NetResolvers ==
    {[kind |-> "dns",
      self |-> [name_ok |-> TRUE, servers |-> ServersOf(fams), method |-> "A"]] :
         fams \in NetServerLists}
    \cup {[kind |-> "dns",
           self |-> [name_ok |-> FALSE, servers |-> ServersOf(<<"v4">>), method |-> "A"]]}
    \cup {[kind |-> "http", self |-> [uri_ok |-> uri_ok, method |-> "PlainText"]] :
              uri_ok \in BOOLEAN}

NetLists ==
    UNION {[1..n -> NetResolvers] : n \in 0..NetMaxResolvers}

\* What a query or request may complete with in one poll: the DNS answer
\* if the resolver polled is a dns::Resolver, the outcome of the request
\* if it is a http::Resolver.
NetAnswers ==
    {[response |-> NoResponse, result |-> Err("Http")],
     [response |-> DnsResponse(<<RDataA>>), result |-> Ok(AddrV4, "details")]}

\* The queries in sent, marked with the index of the resolver sending them.
sent_by(i, sent) == [k \in 1..Len(sent) |-> [resolver |-> i, to |-> sent[k]]]

\* next.resolve(self.version) on an element of the slice: the resolve of
\* dns.rs or of http.rs, with the queries sent while building the stream.
resolver_resolve(resolver, v) ==
    IF resolver.kind = "dns"
    THEN LET r == dns_resolve(resolver.self, v)
         IN  [stream |-> [kind |-> "dns", inner |-> r.stream], sent |-> r.sent]
    ELSE [stream |-> [kind |-> "http", inner |-> http_resolve(resolver.self, v)],
          sent |-> <<>>]

\* self.stream.as_mut().poll_next(cx) on the boxed stream of a resolver.
boxed_poll_next(s, ready, answer) ==
    IF s.kind = "empty"
    THEN [res |-> ReadyNone, stream |-> s, sent |-> <<>>, completed |-> {}]
    ELSE IF s.kind = "dns"
    THEN LET r == dns_poll_next(s.inner, ready, answer.response)
         IN  [res |-> r.res, stream |-> [s EXCEPT !.inner = r.stream],
              sent |-> r.sent, completed |-> r.completed]
    ELSE LET r == http_poll_next(s.inner, ready, answer.result)
         IN  [res |-> r.res, stream |-> [s EXCEPT !.inner = r.stream],
              sent |-> IF r.sent = 1 THEN <<Endpoint>> ELSE <<>>,
              completed |-> IF s.inner.kind = "resolutions" /\ r.res.tag = "Some"
                            THEN {Endpoint} ELSE {}]

\* <&[R] as Resolver>::resolve over DNS and HTTP resolvers: iter counts the
\* elements taken from self.iter().
net_slice_resolve(list, v) ==
    IF list = <<>>
    THEN [iter |-> 0, stream |-> [kind |-> "empty"], sent |-> <<>>]
    ELSE LET first == resolver_resolve(list[1], v)
         IN  [iter |-> 1, stream |-> first.stream, sent |-> sent_by(1, first.sent)]

\* DynSliceResolver::poll_next over DNS and HTTP resolvers.
net_slice_poll_next(list, v, iter, s, ready, answer) ==
    LET first == boxed_poll_next(s, ready, answer)
    IN  IF first.res.tag # "None"
        THEN [res |-> first.res, iter |-> iter, stream |-> first.stream,
              sent |-> sent_by(iter, first.sent),
              completed |-> {[resolver |-> iter, to |-> t] : t \in first.completed}]
        ELSE IF iter >= Len(list)
        THEN [res |-> ReadyNone, iter |-> iter, stream |-> first.stream,
              sent |-> <<>>, completed |-> {}]
        ELSE LET next == resolver_resolve(list[iter + 1], v)
                 second == boxed_poll_next(next.stream, ready, answer)
             IN  [res |-> second.res, iter |-> iter + 1, stream |-> second.stream,
                  sent |-> sent_by(iter + 1, next.sent \o second.sent),
                  completed |-> {[resolver |-> iter + 1, to |-> t] :
                                     t \in second.completed}]

InitNet ==
    /\ CoreIdle
    /\ rl = Unused /\ dns = Unused /\ js = Unused /\ nest = Unused /\ http = Unused
    /\ \E list \in NetLists, v \in Version :
           net = [on       |-> TRUE,
                  list     |-> list,
                  version  |-> v,
                  built    |-> FALSE,
                  iter     |-> 0,
                  stream   |-> [kind |-> "empty"],
                  queries  |-> <<>>,
                  inflight |-> {},
                  out      |-> <<>>,
                  last     |-> NotPolled,
                  ended    |-> FALSE]

\* The call of resolve on the slice.
NetResolve ==
    /\ net.on /\ ~net.built
    /\ LET r == net_slice_resolve(net.list, net.version)
       IN  net' = [net EXCEPT !.built = TRUE,
                              !.iter = r.iter,
                              !.stream = r.stream,
                              !.queries = @ \o r.sent,
                              !.inflight = @ \cup Range(r.sent)]
    /\ UNCHANGED <<coreVars, rl, dns, js, nest, http>>

\* One poll_next of the stream the slice returned.
NetPoll(ready, answer) ==
    /\ net.on /\ net.built
    /\ \E r \in {net_slice_poll_next(net.list, net.version, net.iter, net.stream,
                                     ready, answer)} :
           net' = [net EXCEPT !.iter = r.iter,
                              !.stream = r.stream,
                              !.queries = @ \o r.sent,
                              !.inflight = (@ \cup Range(r.sent)) \ r.completed,
                              !.out = IF r.res.tag = "Some" THEN Append(@, r.res.item) ELSE @,
                              !.last = r.res,
                              !.ended = @ \/ r.res.tag = "None"]
    /\ UNCHANGED <<coreVars, rl, dns, js, nest, http>>

NextNet ==
    \/ NetResolve
    \/ \E ready \in BOOLEAN, answer \in NetAnswers : NetPoll(ready, answer)

\* A sequence is built and pulled from: on one DNS resolver, on one HTTP
\* resolver, or on a slice of resolvers of both kinds.
InitQueries == InitDns \/ InitHttp \/ InitNet

NextQueries ==
    \/ NextDns
    \/ NextHttp
    \/ NextNet

SpecQueries == InitQueries /\ [][NextQueries]_vars

\* C13: building a sequence, on a DNS resolver, on a HTTP resolver or on a
\* list of them, starts no query: a query or request is sent only inside a
\* poll of the sequence and is outstanding only while the latest poll
\* reported pending, no server or endpoint is queried twice, and at no
\* time is a query outstanding for a server or a resolver other than the
\* one whose stream is the current one.
C13_NoQueryBeforePull ==
    /\ dns.on =>
           /\ dns.last = NotPolled => (dns.queries = <<>> /\ dns.inflight = {})
           /\ dns.inflight \subseteq ActiveServer
           /\ Cardinality(dns.inflight) <= 1
           /\ dns.inflight # {} => dns.last = PollPending
           /\ \A i, j \in 1..Len(dns.queries) : dns.queries[i] = dns.queries[j] => i = j
    /\ http.on =>
           /\ http.last = NotPolled => http.requests = 0
           /\ http.requests <= 1
           /\ (http.built /\ http.stream.kind = "resolutions"
                   /\ http.stream.response = "inflight") => http.last = PollPending
           /\ (http.built /\ http.stream.kind = "once") => http.requests = 0
    /\ net.on =>
           /\ net.last = NotPolled => (net.queries = <<>> /\ net.inflight = {})
           /\ \A q \in net.inflight : q.resolver = net.iter
           /\ Cardinality(net.inflight) <= 1
           /\ net.inflight # {} => net.last = PollPending
           /\ \A i, j \in 1..Len(net.queries) : net.queries[i] = net.queries[j] => i = j
           /\ \A i, j \in 1..Len(net.queries) :
                  i <= j => net.queries[i].resolver <= net.queries[j].resolver
           /\ \A i \in 1..Len(net.queries) : net.queries[i].resolver <= net.iter

\* C13 witness: in a list of a DNS resolver and a HTTP resolver the one
\* server of the first was queried and answered, the list moved on, and
\* the request of the second is outstanding while its poll is pending.
C13_Witness ==
    /\ net.on
    /\ net.built
    /\ Len(net.list) = 2
    /\ net.list[1].kind = "dns"
    /\ net.list[2].kind = "http"
    /\ Len(net.queries) = 2
    /\ net.queries[1].resolver = 1
    /\ Len(net.out) = 1
    /\ net.inflight = {[resolver |-> 2, to |-> Endpoint]}
    /\ net.last = PollPending

=============================================================================
